---- MODULE Spec2Model ----
(***************************************************************************)
(* Model of the hybrid GPU/NPU/CPU genome analyzer of OSGenome:            *)
(*   - HybridAcceleratedAnalyzer.analyze_hybrid and its three batch        *)
(*     strategies (hybrid_accelerated_analyzer.py),                        *)
(*   - ConsistencyValidator.validate_determinism (validation_suite.py),    *)
(*   - IntelligentScheduler (resource_scheduler.py).                       *)
(*                                                                         *)
(* Python Optional values are sequences of length <= 1: <<>> is None and   *)
(* <<x>> is the value x.  Marker ids (rsids) are integers so that the      *)
(* validator's sort by rsid has an order to use.  A magnitude is an        *)
(* integer count of float64 steps; float32 values are the multiples of     *)
(* F32Step.                                                                *)
(***************************************************************************)
EXTENDS Integers, Sequences, FiniteSets, TLC

\* ------------------------------------------------------------------ bounds
NumMarkers == 3
GpuBatchSize == 2
NpuBatchSize == 1
CpuBatchSize == 2
MaxErrors == 1
TestSnps == 2
MaxSubmits == 2
NumWorkers == 2
MaxRecords == 1
MaxProcesses == 2
MaxQueued == 3
MaxHistory == 23
MaxGpuReports == 2
MaxGenome == 245
MaxUpdates == 7
MaxBatches == 3

\* ------------------------------------------------------- program constants
F32Step == 4
Runs == 3

None == <<>>
Some(x) == <<x>>

NoInfoSummary == "No SNPedia information available"

VARIABLES
    genome_data,        \* genome_reader.genome_data: rsid -> GenomeData
    snpedia_cache,      \* self.snpedia_cache: rsid -> SNPInfo (partial)
    magnitude_threshold,
    gpu_accelerator,    \* "off" | "failed" | "on"
    npu_accelerator,    \* "off" | "failed" | "torch" | "openvino"
    limit,              \* the limit argument of analyze_hybrid (Optional[int])
    rsid_queue,         \* queue.Queue of rsids
    result_queue,       \* queue.Queue of AnalysisResult
    thread_pc,          \* [{"gpu","npu"} -> position of gpu_worker / npu_worker]
    thread_batch,       \* the local `batch` of each worker thread
    thread_out,         \* results of the current batch not yet put on result_queue
    main_pc,            \* position of the main thread inside analyze_hybrid
    cpu_batch,          \* the local `batch` of the CPU batching loop
    cpu_batches,        \* list of batches handed to the ProcessPoolExecutor
    cpu_consumed,       \* indices of cpu_futures already yielded by as_completed
    main_out,           \* results of the current future not yet put on result_queue
    results,            \* self.results
    batches,            \* history: per worker thread, the batches it formed
    produced,           \* history: every result a strategy returned
    arrival,            \* history: result_queue content when it was drained
    errors,             \* history: the batches whose processing raised
    run_idx,            \* validate_determinism: number of completed runs
    run_results,        \* validate_determinism: per run, the results sorted by rsid
    run_hashes,         \* validate_determinism: per run, the digest
    returned,           \* history: the list the first run of analyze_hybrid returned
    report,             \* outcome of validate_determinism
    CUDA_AVAILABLE,     \* resource_scheduler: cupy could be imported
    torch_device,       \* "none" | "cuda" | "mps": what torch reports as available
    current_state,      \* ResourceMonitor.current_state (the published snapshot)
    work_queues,        \* IntelligentScheduler.work_queues: unit -> PriorityQueue
    active_workers,     \* IntelligentScheduler.active_workers: unit -> int
    performance_history,\* IntelligentScheduler.performance_history: unit -> list
    clock,              \* time.time() in submissions; also counts the submissions
    submit_result,      \* what the last submit_work returned ("none" before any)
    worker_pc,          \* per worker: "idle" | "got" | "running"
    worker_batch,       \* per worker: the WorkBatch get_next_work handed out
    saturated,          \* history: units over their threshold and not yet back below it by the margin
    recorded,           \* history: per unit, every rate record_performance was given
    reader_ref,         \* get_scheduling_stats: "none" | "current" | "old": the object its local state refers to
    old_state,          \* the ResourceState object a reader still holds after the monitor replaced it
    reader_seen,        \* get_scheduling_stats: the field values read so far
    scheduling_lock,    \* IntelligentScheduler.scheduling_lock: 0 (free) or the thread holding it
    call_pc,            \* per thread: position inside the scheduler method it is running
    call_op,            \* per thread: the method it is running, its unit and its batch
    call_seen,          \* per thread: the snapshots get_current_state() returned to this call
    call_slice,         \* per thread: record_performance's slice not yet stored
    handed_out,         \* history: the batch ids get_next_work returned, with the unit asked
    progress,           \* the updates pushed to the progress_callback argument
    num_processes,      \* SimpleParallelAnalyzer.num_processes
    simple_pc,          \* position inside analyze_parallel
    chunks,             \* analyze_parallel: the rsid lists of the chunks
    chunks_done,        \* analyze_parallel: futures as_completed has yielded
    completed_chunks,   \* analyze_parallel: completed_chunks
    simple_results,     \* SimpleParallelAnalyzer.results
    cache_is_none,      \* HybridAcceleratedAnalyzer: self.snpedia_cache is None
    use_cpu,            \* ComputeConfig.use_cpu
    distribution_weights,\* AdaptiveLoadBalancer.distribution_weights, as fractions num[unit] / den
    weight_updates,     \* number of update_distribution calls so far
    distribution        \* what the last get_recommended_distribution returned (None before any)

hybrid_vars == <<genome_data, snpedia_cache, magnitude_threshold, gpu_accelerator,
                 npu_accelerator, limit, rsid_queue, result_queue, thread_pc, thread_batch,
                 thread_out, main_pc, cpu_batch, cpu_batches, cpu_consumed, main_out,
                 results, batches, produced, arrival, errors>>

val_vars == <<run_idx, run_results, run_hashes, returned, report>>

sched_vars == <<scheduling_lock, call_pc, call_op, call_seen, call_slice,
               CUDA_AVAILABLE, torch_device, current_state, work_queues,
               active_workers, performance_history, clock, submit_result,
               worker_pc, worker_batch, handed_out,
               saturated, recorded, reader_ref, old_state, reader_seen>>

reader_vars == <<reader_ref, old_state, reader_seen>>

call_vars == <<scheduling_lock, call_pc, call_op, call_seen, call_slice>>

simple_vars == <<progress, num_processes, simple_pc, chunks, chunks_done,
                completed_chunks, simple_results>>

setup_vars == <<cache_is_none, use_cpu>>

balancer_vars == <<distribution_weights, weight_updates, distribution>>

rest_vars == <<setup_vars, balancer_vars>>

vars == <<hybrid_vars, val_vars, sched_vars, simple_vars, rest_vars>>

\* --------------------------------------------------------------- data model
Units == {"gpu", "npu"}

\* list(self.genome_reader.genome_data.keys()): file order, here descending ids
all_rsids == [i \in 1..Len(genome_data) |-> Len(genome_data) + 1 - i]

Reversed(s) == [i \in 1..Len(s) |-> s[Len(s) + 1 - i]]

SeqToSet(s) == {s[i] : i \in 1..Len(s)}

\* float(cp.float32(x)): round to the nearest float32 value, ties to even
F32(x) ==
    LET q == x \div F32Step
        r == x % F32Step
    IN  IF 2 * r < F32Step THEN q * F32Step
        ELSE IF 2 * r > F32Step THEN (q + 1) * F32Step
        ELSE IF q % 2 = 0 THEN q * F32Step ELSE (q + 1) * F32Step

ResultIds(rs) == {rs[i].rsid : i \in 1..Len(rs)}

\* Python truthiness of an Optional[float]
Truthy(m) == m # None /\ m[1] # 0

AnalysisResult(rsid, g, magnitude, repute, summary, interpretation, references) ==
    [rsid |-> rsid, user_genotype |-> g.genotype, chromosome |-> g.chromosome,
     position |-> g.position, magnitude |-> magnitude, repute |-> repute,
     summary |-> summary, interpretation |-> interpretation,
     references |-> references]

\* a lookup that tries the reversed genotype first
InterpretationReversedFirst(genotype, snp_info) ==
    IF Reversed(genotype) \in DOMAIN snp_info.genotypes
    THEN Some(snp_info.genotypes[Reversed(genotype)])
    ELSE IF genotype \in DOMAIN snp_info.genotypes
         THEN Some(snp_info.genotypes[genotype])
         ELSE None

\* the interpretation lookup shared by all strategies
Interpretation(genotype, snp_info) ==
    IF genotype \in DOMAIN snp_info.genotypes
    THEN Some(snp_info.genotypes[genotype])
    ELSE IF Reversed(genotype) \in DOMAIN snp_info.genotypes
         THEN Some(snp_info.genotypes[Reversed(genotype)])
         ELSE None

\* a placeholder that copies nothing but the id
NoInfoResultBare(rsid, g) ==
    AnalysisResult(rsid, [genotype |-> <<>>, chromosome |-> "", position |-> 0],
                   None, None, None, None, <<>>)

\* the AnalysisResult built when the marker has no SNPedia record
NoInfoResult(rsid, g) ==
    AnalysisResult(rsid, g, None, None, Some(NoInfoSummary), None, <<>>)

\* one iteration of the loop of cpu_worker_optimized
CpuResult(rsid, gd, cache) ==
    IF rsid \in DOMAIN cache
    THEN LET snp_info == cache[rsid]
         IN  AnalysisResult(rsid, gd[rsid], snp_info.magnitude, snp_info.repute,
                            snp_info.summary,
                            Interpretation(gd[rsid].genotype, snp_info),
                            snp_info.references)
    ELSE NoInfoResult(rsid, gd[rsid])

\* one iteration of the result loop of GPUAccelerator.process_batch_gpu
GpuResult(rsid, gd, cache) ==
    IF rsid \in DOMAIN cache
    THEN LET snp_info == cache[rsid]
             magnitudes_i == IF Truthy(snp_info.magnitude)
                             THEN F32(snp_info.magnitude[1]) ELSE 0
         IN  AnalysisResult(rsid, gd[rsid],
                            IF magnitudes_i > 0 THEN Some(magnitudes_i)
                            ELSE snp_info.magnitude,
                            snp_info.repute, snp_info.summary,
                            Interpretation(gd[rsid].genotype, snp_info),
                            snp_info.references)
    ELSE NoInfoResult(rsid, gd[rsid])

KnownIds(batch, gd) == SelectSeq(batch, LAMBDA rsid : rsid \in DOMAIN gd)

cpu_worker_optimized(cache, gd, batch) ==
    LET ids == KnownIds(batch, gd)
    IN  [i \in 1..Len(ids) |-> CpuResult(ids[i], gd, cache)]

process_batch_gpu(batch, gd, cache) ==
    LET ids == KnownIds(batch, gd)
    IN  [i \in 1..Len(ids) |-> GpuResult(ids[i], gd, cache)]

\* NPUAccelerator._process_torch builds the same records as the CPU worker
process_torch(batch, gd, cache) ==
    LET ids == KnownIds(batch, gd)
    IN  [i \in 1..Len(ids) |-> CpuResult(ids[i], gd, cache)]

\* NPUAccelerator._process_openvino
process_openvino(batch, gd, cache) == <<>>

process_batch_npu(backend, batch, gd, cache) ==
    IF backend = "torch" THEN process_torch(batch, gd, cache)
    ELSE process_openvino(batch, gd, cache)

\* a filter written as `r.magnitude and r.magnitude >= magnitude_threshold`
PassesFilterTruthy(r, t) == Truthy(r.magnitude) /\ r.magnitude[1] >= t

\* r.magnitude is None or r.magnitude >= magnitude_threshold
PassesFilter(r, t) == r.magnitude = None \/ r.magnitude[1] >= t

\* the two tests written as two statements, each with its own put
RECURSIVE FilteredTwoTests(_, _)
FilteredTwoTests(rs, t) ==
    IF rs = <<>> THEN <<>>
    ELSE (IF Head(rs).magnitude = None THEN <<Head(rs)>> ELSE <<>>)
         \o (IF PassesFilter(Head(rs), t) THEN <<Head(rs)>> ELSE <<>>)
         \o FilteredTwoTests(Tail(rs), t)

\* the results of a batch that pass the test of the put loop, in batch order
Filtered(rs, t) == SelectSeq(rs, LAMBDA r : PassesFilter(r, t))

\* key=lambda x: x.magnitude if x.magnitude else 0
SortKey(r) == IF Truthy(r.magnitude) THEN r.magnitude[1] ELSE 0

\* an ascending sort followed by a reversal: descending, ties reversed
RECURSIVE SortByMagnitudeReversed(_)
SortByMagnitudeReversed(s) ==
    IF s = <<>> THEN <<>>
    ELSE LET rest == SortByMagnitudeReversed(SubSeq(s, 1, Len(s) - 1))
             x == s[Len(s)]
             p == Cardinality({i \in 1..Len(rest) : SortKey(rest[i]) > SortKey(x)})
         IN  SubSeq(rest, 1, p) \o <<x>> \o SubSeq(rest, p + 1, Len(rest))

\* list.sort(key=SortKey, reverse=True): stable, descending
RECURSIVE SortByMagnitude(_)
SortByMagnitude(s) ==
    IF s = <<>> THEN <<>>
    ELSE LET rest == SortByMagnitude(SubSeq(s, 1, Len(s) - 1))
             x == s[Len(s)]
             p == Cardinality({i \in 1..Len(rest) : SortKey(rest[i]) >= SortKey(x)})
         IN  SubSeq(rest, 1, p) \o <<x>> \o SubSeq(rest, p + 1, Len(rest))

\* a get that leaves the item on the queue
QueueRestPeek(q) == q

\* queue.Queue.get_nowait on a non-empty queue: the queue that remains
QueueRest(q) == Tail(q)

\* ------------------------------------------------------------ input domains
Genotypes == <<(<<"A", "G">>), (<<"G", "A">>), (<<"T", "T">>)>>

GenomeOf(rsid) ==
    [genotype |-> Genotypes[((rsid - 1) % Len(Genotypes)) + 1],
     chromosome |-> "1", position |-> 100 * rsid]

TableMagnitudes == <<Some(5), Some(0), Some(5), None, Some(8)>>

\* the annotation record the knowledge base holds for a marker
TableInfo(rsid) ==
    [genotypes |-> (<<"A", "G">> :> "typical"),
     magnitude |-> TableMagnitudes[((rsid - 1) % Len(TableMagnitudes)) + 1],
     summary |-> Some("summary"),
     repute |-> IF rsid % 2 = 0 THEN Some("good") ELSE None,
     references |-> <<rsid>>]

Thresholds == {0, 5}

GpuStates == {"off", "failed", "on"}
NpuStates == {"off", "failed", "torch", "openvino"}

BatchSize(u) == IF u = "gpu" THEN GpuBatchSize ELSE NpuBatchSize

\* ------------------------------------------------ analyze_hybrid: one run
\* if limit: all_rsids = all_rsids[:limit]
Limited(ids, lim) ==
    IF lim # None /\ lim[1] # 0
    THEN SubSeq(ids, 1, IF lim[1] < Len(ids) THEN lim[1] ELSE Len(ids))
    ELSE ids

\* self.results.clear(), the queues, the closures' locals
RunStart ==
    /\ rsid_queue = Limited(all_rsids, limit)
    /\ result_queue = <<>>
    /\ thread_pc = [u \in Units |-> "idle"]
    /\ thread_batch = [u \in Units |-> <<>>]
    /\ thread_out = [u \in Units |-> <<>>]
    /\ main_pc = "start_gpu"
    /\ cpu_batch = <<>>
    /\ cpu_batches = <<>>
    /\ cpu_consumed = {}
    /\ main_out = <<>>
    /\ results = <<>>
    /\ batches = [u \in Units |-> <<>>]
    /\ produced = {}
    /\ arrival = <<>>
    /\ errors = <<>>

ValStart ==
    /\ run_idx = 0
    /\ run_results = <<>>
    /\ run_hashes = <<>>
    /\ returned = <<>>
    /\ report = [status |-> "none", passed |-> FALSE, discrepancies |-> <<>>]

\* --------------------------------------------- resource_scheduler.py
ComputeUnit == <<"cpu", "gpu", "npu">>

ComputeUnits == SeqToSet(ComputeUnit)

\* ResourceState without its timestamp; memory sizes are counted in MB
ResourceState(cpu, cores, gpu, gpu_free, npu, memory_free) ==
    [cpu_usage |-> cpu, cpu_available_cores |-> cores,
     gpu_usage |-> gpu, gpu_memory_free |-> gpu_free,
     npu_usage |-> npu, system_memory_free |-> memory_free]

\* IntelligentScheduler.__init__
cpu_threshold == 80
gpu_threshold == 85
npu_threshold == 70
memory_reserve_mb == 1024
HistoryKeep == 20
RecentWindow == 5

\* the machine the monitor samples: psutil.cpu_count() and the GPU memory size
cpu_count == 4
total_gpu_memory == 4000

\* ComputeConfig.num_cpu_workers: mp.cpu_count() // 2
num_cpu_workers == cpu_count \div 2

Max(a, b) == IF a > b THEN a ELSE b
Min(a, b) == IF a < b THEN a ELSE b

\* the snapshot's utilisation, threshold and free memory of a unit
UsageOf(state, u) == CASE u = "cpu" -> state.cpu_usage
                       [] u = "gpu" -> state.gpu_usage
                       [] u = "npu" -> state.npu_usage
ThresholdOf(u) == CASE u = "cpu" -> cpu_threshold
                    [] u = "gpu" -> gpu_threshold
                    [] u = "npu" -> npu_threshold
FreeMemoryOf(state, u) == IF u = "gpu" THEN state.gpu_memory_free ELSE state.system_memory_free

\* the snapshot one pass of _monitor_loop publishes; gpu_query_ok is false when
\* the cupy calls raise and the bare except leaves the GPU fields at 0
MonitorSample(cpu_usage, memory_free, gpu_free, gpu_query_ok) ==
    LET cpu_available == Max(0, cpu_count - ((cpu_count * cpu_usage) \div 100))
        gpu_read == CUDA_AVAILABLE /\ gpu_query_ok
        gpu_usage0 == IF gpu_read
                      THEN ((total_gpu_memory - gpu_free) * 100) \div total_gpu_memory
                      ELSE 0
        gpu_memory_free == IF gpu_read THEN gpu_free ELSE 0
        gpu_usage == IF torch_device = "cuda" THEN Min(100, gpu_usage0 + 10) ELSE gpu_usage0
        npu_usage == IF torch_device = "mps" THEN 20 ELSE 0
    IN  ResourceState(cpu_usage, cpu_available, gpu_usage, gpu_memory_free,
                      npu_usage, memory_free)

\* _can_schedule
CanSchedule(batch, state, active) ==
    CASE batch.compute_unit = "cpu" ->
            /\ state.cpu_usage < cpu_threshold
            /\ state.cpu_available_cores > 0
            /\ state.system_memory_free > batch.memory_requirement + memory_reserve_mb
      [] batch.compute_unit = "gpu" ->
            /\ state.gpu_usage < gpu_threshold
            /\ state.gpu_memory_free > batch.memory_requirement
            /\ active["gpu"] < 2
      [] batch.compute_unit = "npu" ->
            /\ state.npu_usage < npu_threshold
            /\ active["npu"] < 1
      [] OTHER -> FALSE

\* _find_alternative_compute_unit: the candidates in the order CPU, GPU, NPU,
\* then a stable sort by usage and the first of them
FindAlternativeComputeUnit(batch, state) ==
    LET Usage(u) == CASE u = "cpu" -> state.cpu_usage
                      [] u = "gpu" -> state.gpu_usage
                      [] u = "npu" -> state.npu_usage
        Limit(u) == CASE u = "cpu" -> cpu_threshold
                      [] u = "gpu" -> gpu_threshold
                      [] u = "npu" -> npu_threshold
        alternatives == SelectSeq(ComputeUnit,
                           LAMBDA u : u # batch.compute_unit /\ Usage(u) < Limit(u))
    IN  IF alternatives = <<>> THEN None
        ELSE Some(alternatives[CHOOSE i \in 1..Len(alternatives) :
                      /\ \A j \in 1..Len(alternatives) :
                            Usage(alternatives[i]) <= Usage(alternatives[j])
                      /\ \A j \in 1..(i - 1) :
                            Usage(alternatives[j]) > Usage(alternatives[i])])

Sum(s) == LET RECURSIVE Add(_)
              Add(k) == IF k = 0 THEN 0 ELSE s[k] + Add(k - 1)
          IN  Add(Len(s))

LastN(s, n) == SubSeq(s, Max(1, Len(s) - n + 1), Len(s))

\* _get_recent_performance as the fraction <<numerator, denominator>>
GetRecentPerformance(history) ==
    IF history = <<>> THEN <<1, 1>>
    ELSE LET recent == LastN(history, RecentWindow)
         IN  <<Sum(recent), Len(recent)>>

\* a priority that looks at the CPU load whatever the unit of the batch
CalculateDynamicPriorityCpuOnly(batch, state, history) ==
    LET load == IF state.cpu_usage > 60 THEN 10 ELSE 0
        recent_performance == GetRecentPerformance(history[batch.compute_unit])
        slow == IF 2 * recent_performance[1] < recent_performance[2] THEN 15 ELSE 0
    IN  batch.priority + load + slow

\* _calculate_dynamic_priority
CalculateDynamicPriority(batch, state, history) ==
    LET load == CASE batch.compute_unit = "cpu" /\ state.cpu_usage > 60 -> 10
                  [] batch.compute_unit = "gpu" /\ state.gpu_usage > 50 -> 5
                  [] OTHER -> 0
        recent_performance == GetRecentPerformance(history[batch.compute_unit])
        slow == IF 2 * recent_performance[1] < recent_performance[2] THEN 15 ELSE 0
    IN  batch.priority + load + slow

\* the order of the tuples (adjusted_priority, time.time(), batch) in a queue
ItemBefore(a, b) == a[1] < b[1] \/ (a[1] = b[1] /\ a[2] < b[2])

\* a < b on two queue tuples: the first differing component decides; WorkBatch
\* defines no ordering, so two different batches behind equal priority and
\* equal timestamp raise TypeError
TupleLess(a, b) ==
    IF a[1] # b[1] THEN (IF a[1] < b[1] THEN "lt" ELSE "ge")
    ELSE IF a[2] # b[2] THEN (IF a[2] < b[2] THEN "lt" ELSE "ge")
    ELSE IF a[3] = b[3] THEN "ge" ELSE "raise"

Swap(heap, i, j) == [heap EXCEPT ![i] = heap[j], ![j] = heap[i]]

\* heapq's sift towards the root, positions counted from 1; a comparison that
\* raises leaves the list as it stands
RECURSIVE SiftDown(_, _, _)
SiftDown(heap, startpos, pos) ==
    IF pos <= startpos
    THEN [heap |-> heap, raised |-> FALSE]
    ELSE LET parentpos == pos \div 2
             c == TupleLess(heap[pos], heap[parentpos])
         IN  IF c = "raise" THEN [heap |-> heap, raised |-> TRUE]
             ELSE IF c = "ge" THEN [heap |-> heap, raised |-> FALSE]
             ELSE SiftDown(Swap(heap, pos, parentpos), startpos, parentpos)

\* heapq's sift towards the leaves: the smaller child moves up until a leaf is
\* reached, then the item is sifted back towards the root
RECURSIVE SiftUp(_, _, _)
SiftUp(heap, startpos, pos) ==
    IF 2 * pos > Len(heap)
    THEN SiftDown(heap, startpos, pos)
    ELSE LET left == 2 * pos
             right == 2 * pos + 1
             c == IF right <= Len(heap) THEN TupleLess(heap[left], heap[right]) ELSE "lt"
             child == IF c = "lt" THEN left ELSE right
         IN  IF c = "raise" THEN [heap |-> heap, raised |-> TRUE]
             ELSE SiftUp(Swap(heap, pos, child), startpos, child)

\* heapq.heappush, as PriorityQueue._put calls it
HeapPush(heap, item) == SiftDown(Append(heap, item), 1, Len(heap) + 1)

\* heapq.heappop, as PriorityQueue._get calls it, on a non-empty heap
HeapPop(heap) ==
    LET lastelt == heap[Len(heap)]
        rest == SubSeq(heap, 1, Len(heap) - 1)
        sifted == SiftUp([rest EXCEPT ![1] = lastelt], 1, 1)
    IN  IF rest = <<>>
        THEN [item |-> lastelt, heap |-> <<>>, raised |-> FALSE]
        ELSE [item |-> heap[1], heap |-> sifted.heap, raised |-> sifted.raised]

\* PriorityQueue.put: the heap list afterwards
QueuePut(q, item) == HeapPush(q, item).heap

\* a get that leaves the item in the queue
QueueGetPeek(q) == q

\* PriorityQueue.get_nowait: the heap list without the item it returned
QueueGet(q) == HeapPop(q).heap

Workers == 1..NumWorkers

\* a thread that is not inside a scheduler method
NoCall == [op |-> "none", compute_unit |-> "none", batch |-> <<>>]

\* the scheduler after IntelligentScheduler.__init__, before any worker acts
SchedStart ==
    /\ current_state = ResourceState(0, 0, 0, 0, 0, 0)
    /\ work_queues = [u \in ComputeUnits |-> <<>>]
    /\ active_workers = [u \in ComputeUnits |-> 0]
    /\ performance_history = [u \in ComputeUnits |-> <<>>]
    /\ clock = 0
    /\ submit_result = "none"
    /\ worker_pc = [w \in Workers |-> "idle"]
    /\ worker_batch = [w \in Workers |-> None]
    /\ handed_out = {}
    /\ reader_ref = "none"
    /\ old_state = ResourceState(0, 0, 0, 0, 0, 0)
    /\ reader_seen = <<>>
    /\ recorded = [u \in ComputeUnits |-> <<>>]
    /\ saturated = {}
    /\ scheduling_lock = 0
    /\ call_pc = [w \in Workers |-> "idle"]
    /\ call_op = [w \in Workers |-> NoCall]
    /\ call_seen = [w \in Workers |-> <<>>]
    /\ call_slice = [w \in Workers |-> <<>>]

\* a HybridAcceleratedAnalyzer with the default ComputeConfig whose
\* snpedia_cache has been assigned
SetupStart ==
    /\ cache_is_none = FALSE
    /\ use_cpu = TRUE

\* AdaptiveLoadBalancer.__init__: weights 0.4, 0.4, 0.2
BalancerStart ==
    /\ distribution_weights = [num |-> ("cpu" :> 4 @@ "gpu" :> 4 @@ "npu" :> 2), den |-> 10]
    /\ weight_updates = 0
    /\ distribution = None

\* a SimpleParallelAnalyzer on which analyze_parallel has not been called
SimpleStart ==
    /\ progress = <<>>
    /\ num_processes = 1
    /\ simple_pc = "start"
    /\ chunks = <<>>
    /\ chunks_done = {}
    /\ completed_chunks = 0
    /\ simple_results = <<>>

\* the analyzer after __init__, load_genome and preload_snpedia
Init ==
    /\ genome_data = [rsid \in 1..NumMarkers |-> GenomeOf(rsid)]
    /\ \E k \in 0..NumMarkers : snpedia_cache = [rsid \in 1..k |-> TableInfo(rsid)]
    /\ magnitude_threshold \in Thresholds
    /\ gpu_accelerator \in GpuStates
    /\ npu_accelerator \in NpuStates
    /\ limit = None
    /\ RunStart
    /\ ValStart
    /\ SchedStart
    /\ SetupStart
    /\ BalancerStart
    /\ SimpleStart
    /\ CUDA_AVAILABLE = FALSE
    /\ torch_device = "none"

config_vars == <<genome_data, snpedia_cache, magnitude_threshold, gpu_accelerator,
                 npu_accelerator, limit>>

\* if self.config.use_gpu and self.gpu_accelerator: gpu_thread.start()
StartGpu ==
    /\ main_pc = "start_gpu"
    /\ main_pc' = "start_npu"
    /\ thread_pc' = IF gpu_accelerator = "on"
                    THEN [thread_pc EXCEPT !["gpu"] = "loop"] ELSE thread_pc
    /\ UNCHANGED <<config_vars, rsid_queue, result_queue, thread_batch, thread_out,
                   cpu_batch, cpu_batches, cpu_consumed, main_out, results, batches,
                   produced, arrival, errors, val_vars, sched_vars, simple_vars, rest_vars>>

\* if self.config.use_npu and self.npu_accelerator: npu_thread.start()
StartNpu ==
    /\ main_pc = "start_npu"
    /\ main_pc' = "cpu_loop"
    /\ thread_pc' = IF npu_accelerator \in {"torch", "openvino"}
                    THEN [thread_pc EXCEPT !["npu"] = "loop"] ELSE thread_pc
    /\ UNCHANGED <<config_vars, rsid_queue, result_queue, thread_batch, thread_out,
                   cpu_batch, cpu_batches, cpu_consumed, main_out, results, batches,
                   produced, arrival, errors, val_vars, sched_vars, simple_vars, rest_vars>>

\* gpu_worker / npu_worker: the while test fails, the thread ends
ThreadExit(u) ==
    /\ thread_pc[u] = "loop"
    /\ rsid_queue = <<>>
    /\ thread_pc' = [thread_pc EXCEPT ![u] = "done"]
    /\ UNCHANGED <<config_vars, rsid_queue, result_queue, thread_batch, thread_out,
                   main_pc, cpu_batch, cpu_batches, cpu_consumed, main_out, results,
                   batches, produced, arrival, errors, val_vars, sched_vars, simple_vars, rest_vars>>

\* batch.append(rsid_queue.get_nowait()): the first get of a new batch (after
\* the while test and batch = []) or a later one; a full batch goes to `if batch:`
ThreadTake(u) ==
    /\ thread_pc[u] \in {"loop", "fill"}
    /\ rsid_queue # <<>>
    /\ LET old == IF thread_pc[u] = "loop" THEN <<>> ELSE thread_batch[u]
           new == Append(old, Head(rsid_queue))
       IN  /\ thread_batch' = [thread_batch EXCEPT ![u] = new]
           /\ thread_pc' = [thread_pc EXCEPT ![u] =
                                IF Len(new) >= BatchSize(u) THEN "process" ELSE "fill"]
           /\ batches' = IF Len(new) >= BatchSize(u)
                         THEN [batches EXCEPT ![u] = Append(@, new)] ELSE batches
    /\ rsid_queue' = QueueRest(rsid_queue)
    /\ UNCHANGED <<config_vars, result_queue, thread_out, main_pc, cpu_batch,
                   cpu_batches, cpu_consumed, main_out, results, produced, arrival,
                   errors, val_vars, sched_vars, simple_vars, rest_vars>>

\* the for loop ends on an empty queue (rsid_queue.empty() or queue.Empty)
ThreadFillEnd(u) ==
    /\ thread_pc[u] = "fill"
    /\ rsid_queue = <<>>
    /\ thread_pc' = [thread_pc EXCEPT ![u] = "process"]
    /\ batches' = [batches EXCEPT ![u] = Append(@, thread_batch[u])]
    /\ UNCHANGED <<config_vars, rsid_queue, result_queue, thread_batch, thread_out,
                   main_pc, cpu_batch, cpu_batches, cpu_consumed, main_out, results,
                   produced, arrival, errors, val_vars, sched_vars, simple_vars, rest_vars>>

Strategy(u, batch) ==
    IF u = "gpu" THEN process_batch_gpu(batch, genome_data, snpedia_cache)
    ELSE process_batch_npu(npu_accelerator, batch, genome_data, snpedia_cache)

\* results = accelerator.process_batch(...) returned normally
ThreadProcess(u) ==
    /\ thread_pc[u] = "process"
    /\ LET rs == Strategy(u, thread_batch[u])
           out == Filtered(rs, magnitude_threshold)
       IN  /\ produced' = produced \cup SeqToSet(rs)
           /\ thread_out' = [thread_out EXCEPT ![u] = out]
           /\ thread_pc' = [thread_pc EXCEPT ![u] = IF out = <<>> THEN "loop" ELSE "put"]
    /\ UNCHANGED <<config_vars, rsid_queue, result_queue, thread_batch, main_pc,
                   cpu_batch, cpu_batches, cpu_consumed, main_out, results, batches,
                   arrival, errors, val_vars, sched_vars, simple_vars, rest_vars>>

\* except Exception as e: print(...)
ThreadRaise(u) ==
    /\ thread_pc[u] = "process"
    /\ Len(errors) < MaxErrors
    /\ errors' = Append(errors, thread_batch[u])
    /\ thread_pc' = [thread_pc EXCEPT ![u] = "loop"]
    /\ UNCHANGED <<config_vars, rsid_queue, result_queue, thread_batch, thread_out,
                   main_pc, cpu_batch, cpu_batches, cpu_consumed, main_out, results,
                   batches, produced, arrival, val_vars, sched_vars, simple_vars, rest_vars>>

\* for r in results: if ...: result_queue.put(r); after the last one the stats
\* update and back to the while test
ThreadPut(u) ==
    /\ thread_pc[u] = "put"
    /\ result_queue' = Append(result_queue, Head(thread_out[u]))
    /\ thread_out' = [thread_out EXCEPT ![u] = Tail(@)]
    /\ thread_pc' = [thread_pc EXCEPT ![u] =
                         IF Tail(thread_out[u]) = <<>> THEN "loop" ELSE "put"]
    /\ UNCHANGED <<config_vars, rsid_queue, thread_batch, main_pc, cpu_batch,
                   cpu_batches, cpu_consumed, main_out, results, batches, produced,
                   arrival, errors, val_vars, sched_vars, simple_vars, rest_vars>>

\* main thread: rsid = rsid_queue.get_nowait(); batch.append(rsid); a full
\* batch is appended to cpu_batches
CpuTake ==
    /\ main_pc \in {"cpu_loop", "cpu_fill"}
    /\ rsid_queue # <<>>
    /\ LET old == IF main_pc = "cpu_loop" THEN <<>> ELSE cpu_batch
           new == Append(old, Head(rsid_queue))
       IN  /\ cpu_batch' = new
           /\ main_pc' = IF Len(new) >= CpuBatchSize THEN "cpu_loop" ELSE "cpu_fill"
           /\ cpu_batches' = IF Len(new) >= CpuBatchSize
                             THEN Append(cpu_batches, new) ELSE cpu_batches
    /\ rsid_queue' = QueueRest(rsid_queue)
    /\ UNCHANGED <<config_vars, result_queue, thread_pc, thread_batch, thread_out,
                   cpu_consumed, main_out, results, batches, produced, arrival,
                   errors, val_vars, sched_vars, simple_vars, rest_vars>>

\* main thread: the for loop ends on an empty queue; cpu_batches.append(...)
CpuFillEnd ==
    /\ main_pc = "cpu_fill"
    /\ rsid_queue = <<>>
    /\ main_pc' = "cpu_loop"
    /\ cpu_batches' = Append(cpu_batches, cpu_batch)
    /\ UNCHANGED <<config_vars, rsid_queue, result_queue, thread_pc, thread_batch,
                   thread_out, cpu_batch, cpu_consumed, main_out, results, batches,
                   produced, arrival, errors, val_vars, sched_vars, simple_vars, rest_vars>>

\* main thread: the while test fails; the futures are submitted
CpuLoopExit ==
    /\ main_pc = "cpu_loop"
    /\ rsid_queue = <<>>
    /\ main_pc' = "as_completed"
    /\ UNCHANGED <<config_vars, rsid_queue, result_queue, thread_pc, thread_batch,
                   thread_out, cpu_batch, cpu_batches, cpu_consumed, main_out, results,
                   batches, produced, arrival, errors, val_vars, sched_vars, simple_vars, rest_vars>>

\* batch_genome: genome_data restricted to the ids of the batch
BatchGenome(batch) ==
    [rsid \in SeqToSet(batch) \cap DOMAIN genome_data |-> genome_data[rsid]]

\* as_completed yields future i; future.result() returns the worker's list
FutureResult(i) ==
    /\ main_pc = "as_completed"
    /\ i \in (1..Len(cpu_batches)) \ cpu_consumed
    /\ cpu_consumed' = cpu_consumed \cup {i}
    /\ LET rs == cpu_worker_optimized(snpedia_cache, BatchGenome(cpu_batches[i]),
                                       cpu_batches[i])
           out == Filtered(rs, magnitude_threshold)
       IN  /\ produced' = produced \cup SeqToSet(rs)
           /\ main_out' = out
           /\ main_pc' = IF out = <<>> THEN "as_completed" ELSE "cpu_put"
    /\ UNCHANGED <<config_vars, rsid_queue, result_queue, thread_pc, thread_batch,
                   thread_out, cpu_batch, cpu_batches, results, batches, arrival,
                   errors, val_vars, sched_vars, simple_vars, rest_vars>>

\* as_completed yields future i; future.result() raises
FutureRaise(i) ==
    /\ main_pc = "as_completed"
    /\ i \in (1..Len(cpu_batches)) \ cpu_consumed
    /\ Len(errors) < MaxErrors
    /\ cpu_consumed' = cpu_consumed \cup {i}
    /\ errors' = Append(errors, cpu_batches[i])
    /\ UNCHANGED <<config_vars, rsid_queue, result_queue, thread_pc, thread_batch,
                   thread_out, main_pc, cpu_batch, cpu_batches, main_out, results,
                   batches, produced, arrival, val_vars, sched_vars, simple_vars, rest_vars>>

\* main thread: for r in results: if ...: result_queue.put(r); after the last
\* one the stats update and the next future
CpuPut ==
    /\ main_pc = "cpu_put"
    /\ result_queue' = Append(result_queue, Head(main_out))
    /\ main_out' = Tail(main_out)
    /\ main_pc' = IF Tail(main_out) = <<>> THEN "as_completed" ELSE "cpu_put"
    /\ UNCHANGED <<config_vars, rsid_queue, thread_pc, thread_batch, thread_out,
                   cpu_batch, cpu_batches, cpu_consumed, results, batches, produced,
                   arrival, errors, val_vars, sched_vars, simple_vars, rest_vars>>

\* the as_completed loop is over: every future of cpu_futures was yielded
FuturesCompleted == cpu_consumed = 1..Len(cpu_batches)

\* a main thread that goes on without joining its threads
ThreadsJoinedNoWait == TRUE

\* for thread in threads: thread.join() returns: every started thread has ended
ThreadsJoined == \A u \in Units : thread_pc[u] \in {"idle", "done"}

\* every future was yielded, the executor exits; for thread in threads: thread.join()
Join ==
    /\ main_pc = "as_completed"
    /\ FuturesCompleted
    /\ ThreadsJoined
    /\ main_pc' = "collect"
    /\ UNCHANGED <<config_vars, rsid_queue, result_queue, thread_pc, thread_batch,
                   thread_out, cpu_batch, cpu_batches, cpu_consumed, main_out, results,
                   batches, produced, arrival, errors, val_vars, sched_vars, simple_vars, rest_vars>>

\* drain result_queue into self.results, sort, return self.results
Collect ==
    /\ main_pc = "collect"
    /\ arrival' = result_queue
    /\ results' = SortByMagnitude(result_queue)
    /\ result_queue' = <<>>
    /\ main_pc' = "returned"
    /\ UNCHANGED <<config_vars, rsid_queue, thread_pc, thread_batch, thread_out,
                   cpu_batch, cpu_batches, cpu_consumed, main_out, batches, produced,
                   errors, val_vars, sched_vars, simple_vars, rest_vars>>

AnalyzeHybrid ==
    \/ StartGpu
    \/ StartNpu
    \/ \E u \in Units : ThreadExit(u)
    \/ \E u \in Units : ThreadTake(u)
    \/ \E u \in Units : ThreadFillEnd(u)
    \/ \E u \in Units : ThreadProcess(u)
    \/ \E u \in Units : ThreadPut(u)
    \/ CpuTake
    \/ CpuFillEnd
    \/ CpuLoopExit
    \/ \E i \in 1..NumMarkers : FutureResult(i)
    \/ CpuPut
    \/ Join
    \/ Collect

\* a batch strategy or a pool worker raises
Faults ==
    \/ \E u \in Units : ThreadRaise(u)
    \/ \E i \in 1..NumMarkers : FutureRaise(i)

Next == AnalyzeHybrid \/ Faults

\* one call of analyze_hybrid, batch processing may raise
Spec == Init /\ [][Next]_vars

\* one call of analyze_hybrid in which no batch processing raises
SpecNoFault == Init /\ [][AnalyzeHybrid]_vars

\* the arguments and genomes a caller may hand to analyze_hybrid: a genome of
\* any size, the empty one included, and any limit, 0 included
InputInit ==
    /\ \E n \in 0..NumMarkers :
          /\ genome_data = [rsid \in 1..n |-> GenomeOf(rsid)]
          /\ snpedia_cache = [rsid \in 1..n |-> TableInfo(rsid)]
    /\ magnitude_threshold \in Thresholds
    /\ gpu_accelerator \in {"off", "on"}
    /\ npu_accelerator \in {"off", "torch"}
    /\ limit \in {None} \cup {Some(l) : l \in 0..NumMarkers}
    /\ RunStart
    /\ ValStart
    /\ SchedStart
    /\ SetupStart
    /\ BalancerStart
    /\ SimpleStart
    /\ CUDA_AVAILABLE = FALSE
    /\ torch_device = "none"

\* runs over every input, none of whose batches raises
SpecInput == InputInit /\ [][AnalyzeHybrid]_vars

\* ----------------------------- SimpleParallelAnalyzer.analyze_parallel
\* math.ceil(a / b) for b > 0
Ceil(a, b) == (a + b - 1) \div b

\* for i in range(0, total_snps, chunk_size): all_rsids[i:i + chunk_size]
SplitChunks(ids, chunk_size) ==
    [i \in 1..Ceil(Len(ids), chunk_size) |->
        SubSeq(ids, (i - 1) * chunk_size + 1,
               IF i * chunk_size < Len(ids) THEN i * chunk_size ELSE Len(ids))]

\* worker_process: the same join as cpu_worker_optimized, read from the
\* database instead of the preloaded cache
worker_process(db, rsid_chunk, genome_data_chunk) ==
    cpu_worker_optimized(db, genome_data_chunk, rsid_chunk)

SimpleInit ==
    /\ \E n \in 0..NumMarkers :
          /\ genome_data = [rsid \in 1..n |-> GenomeOf(rsid)]
          /\ snpedia_cache = [rsid \in 1..n |-> TableInfo(rsid)]
    /\ magnitude_threshold \in Thresholds
    /\ gpu_accelerator = "off"
    /\ npu_accelerator = "off"
    /\ limit \in {None, Some(0), Some(2)}
    /\ RunStart
    /\ ValStart
    /\ SchedStart
    /\ SetupStart
    /\ BalancerStart
    /\ CUDA_AVAILABLE = FALSE
    /\ torch_device = "none"
    /\ progress = <<>>
    /\ num_processes \in 1..MaxProcesses
    /\ simple_pc = "start"
    /\ chunks = <<>>
    /\ chunks_done = {}
    /\ completed_chunks = 0
    /\ simple_results = <<>>

\* analyze_parallel up to the submission of the chunks; range() with a step
\* of 0 raises ValueError when there is no marker
AnalyzeParallelStart ==
    /\ simple_pc = "start"
    /\ LET ids == Limited(all_rsids, limit)
           chunk_size == Ceil(Len(ids), num_processes)
       IN  IF chunk_size = 0
           THEN /\ simple_pc' = "raised"
                /\ chunks' = <<>>
           ELSE /\ simple_pc' = "as_completed"
                /\ chunks' = SplitChunks(ids, chunk_size)
    /\ simple_results' = <<>>
    /\ completed_chunks' = 0
    /\ chunks_done' = {}
    /\ UNCHANGED <<hybrid_vars, val_vars, sched_vars, rest_vars, progress, num_processes>>

\* as_completed yields future i with the results the worker returned: filter,
\* extend, count the chunk and push the status to the callback
ChunkDone(i, chunk_results) ==
    /\ simple_pc = "as_completed"
    /\ i \in (1..Len(chunks)) \ chunks_done
    /\ chunks_done' = chunks_done \cup {i}
    /\ simple_results' = simple_results \o Filtered(chunk_results, magnitude_threshold)
    /\ completed_chunks' = completed_chunks + 1
    /\ progress' = Append(progress, [completed |-> completed_chunks + 1,
                                     total |-> Len(chunks)])
    /\ UNCHANGED <<hybrid_vars, val_vars, sched_vars, rest_vars, num_processes, simple_pc, chunks>>

\* the worker ran to its end
ChunkResult(i) ==
    ChunkDone(i, worker_process(snpedia_cache, chunks[i], genome_data))

\* the worker caught an exception: print and return []
ChunkWorkerError(i) ==
    ChunkDone(i, <<>>)

\* future.result() raises (the worker process died): print only
ChunkRaise(i) ==
    /\ simple_pc = "as_completed"
    /\ i \in (1..Len(chunks)) \ chunks_done
    /\ chunks_done' = chunks_done \cup {i}
    /\ UNCHANGED <<hybrid_vars, val_vars, sched_vars, rest_vars, progress, num_processes, simple_pc,
                   chunks, completed_chunks, simple_results>>

\* after the last future: sort and return self.results
AnalyzeParallelReturn ==
    /\ simple_pc = "as_completed"
    /\ chunks_done = 1..Len(chunks)
    /\ simple_results' = SortByMagnitude(simple_results)
    /\ simple_pc' = "returned"
    /\ UNCHANGED <<hybrid_vars, val_vars, sched_vars, rest_vars, progress, num_processes, chunks,
                   chunks_done, completed_chunks>>

NextSimple ==
    \/ AnalyzeParallelStart
    \/ \E i \in 1..Len(chunks) : ChunkResult(i)
    \/ \E i \in 1..Len(chunks) : ChunkWorkerError(i)
    \/ \E i \in 1..Len(chunks) : ChunkRaise(i)
    \/ AnalyzeParallelReturn

SpecSimple == SimpleInit /\ [][NextSimple]_vars

\* ------------------------------------------------- the batch partitioners
\* the smallest batch of analyze_all_optimized and of analyze_max_cpu
OptimizedMinBatch == 50
MaxCpuMinBatch == 10

\* max(minimum, total_snps // target)
BatchSizeFloor(minimum, total_snps, target) == Max(minimum, total_snps \div target)

\* an analyzer with a loaded genome of any size up to MaxGenome
PartitionInit ==
    /\ \E n \in 0..MaxGenome : genome_data = [rsid \in 1..n |-> GenomeOf(rsid)]
    /\ snpedia_cache = <<>>
    /\ magnitude_threshold = 0
    /\ gpu_accelerator = "off"
    /\ npu_accelerator = "off"
    /\ limit = None
    /\ RunStart
    /\ ValStart
    /\ SchedStart
    /\ SetupStart
    /\ BalancerStart
    /\ CUDA_AVAILABLE = FALSE
    /\ torch_device = "none"
    /\ progress = <<>>
    /\ num_processes \in 1..MaxProcesses
    /\ simple_pc = "start"
    /\ chunks = <<>>
    /\ chunks_done = {}
    /\ completed_chunks = 0
    /\ simple_results = <<>>

\* analyze_all_optimized with batch_size=None, up to the list of batches
OptimizedPartition ==
    /\ simple_pc = "start"
    /\ LET ids == Limited(all_rsids, limit)
           batch_size == BatchSizeFloor(OptimizedMinBatch, Len(ids), num_processes * 4)
       IN  chunks' = SplitChunks(ids, batch_size)
    /\ simple_pc' = "optimized_batches"
    /\ UNCHANGED <<hybrid_vars, val_vars, sched_vars, rest_vars, progress, num_processes,
                   chunks_done, completed_chunks, simple_results>>

\* analyze_max_cpu up to the list of batches; total_workers = cpu_count() + 2
MaxCpuPartition ==
    /\ simple_pc = "start"
    /\ LET ids == Limited(all_rsids, limit)
           total_workers == num_processes + 2
           batch_size == BatchSizeFloor(MaxCpuMinBatch, Len(ids), total_workers * 8)
       IN  chunks' = SplitChunks(ids, batch_size)
    /\ simple_pc' = "max_cpu_batches"
    /\ UNCHANGED <<hybrid_vars, val_vars, sched_vars, rest_vars, progress, num_processes,
                   chunks_done, completed_chunks, simple_results>>

NextPartition == AnalyzeParallelStart \/ OptimizedPartition \/ MaxCpuPartition

SpecPartition == PartitionInit /\ [][NextPartition]_vars

\* ------------------------------------- ConsistencyValidator.validate_determinism
\* the results hashed in the order analyze_hybrid returned them
SortByRsidArrival(s) == s

\* results.sort(key=lambda x: x.rsid): stable, ascending
RECURSIVE SortByRsid(_)
SortByRsid(s) ==
    IF s = <<>> THEN <<>>
    ELSE LET rest == SortByRsid(SubSeq(s, 1, Len(s) - 1))
             x == s[Len(s)]
             p == Cardinality({i \in 1..Len(rest) : rest[i].rsid <= x.rsid})
         IN  SubSeq(rest, 1, p) \o <<x>> \o SubSeq(rest, p + 1, Len(rest))

\* f"{x}" of an Optional[str]: None prints as the text None
FormatOptional(x) == IF x = None THEN "None" ELSE x[1]

\* f"{x}" of an Optional[float]: the text None or the repr of the float
FormatMagnitude(m) == IF m = None THEN <<"None">> ELSE <<"float", m[1]>>

\* _hash_results: the digest of the joined result strings; the hash function
\* is taken as injective on the string it is given
HashResults(rs) ==
    [i \in 1..Len(rs) |->
        <<rs[i].rsid, rs[i].user_genotype, FormatMagnitude(rs[i].magnitude),
          FormatOptional(rs[i].repute), FormatOptional(rs[i].summary)>>]

\* the attributes an AnalysisResult has
ResultFields == {"rsid", "user_genotype", "chromosome", "position", "magnitude",
                 "repute", "summary", "interpretation", "references"}

\* the attribute names _find_result_differences passes to getattr
DiffFields == <<"genotype", "magnitude", "repute">>

\* {r.rsid: r for r in results}: the last result of each rsid
ByRsid(rs) ==
    [id \in ResultIds(rs) |->
        rs[CHOOSE k \in 1..Len(rs) :
              rs[k].rsid = id /\ \A l \in (k + 1)..Len(rs) : rs[l].rsid # id]]

RECURSIVE AscendingSeq(_)
AscendingSeq(S) ==
    IF S = {} THEN <<>>
    ELSE LET m == CHOOSE x \in S : \A y \in S : x <= y
         IN  <<m>> \o AscendingSeq(S \ {m})

\* _find_result_differences: getattr raises AttributeError for a name that is
\* no attribute of AnalysisResult as soon as one common rsid differs
FindResultDifferences(results1, results2) ==
    LET dict1 == ByRsid(results1)
        dict2 == ByRsid(results2)
        common_rsids == DOMAIN dict1 \cap DOMAIN dict2
        differing == {id \in common_rsids :
                         \/ dict1[id].user_genotype # dict2[id].user_genotype
                         \/ dict1[id].magnitude # dict2[id].magnitude
                         \/ dict1[id].repute # dict2[id].repute}
        ids == AscendingSeq(differing)
    IN  IF differing # {} /\ \E i \in 1..Len(DiffFields) : DiffFields[i] \notin ResultFields
        THEN [raised |-> TRUE, differences |-> <<>>]
        ELSE [raised |-> FALSE,
              differences |->
                [i \in 1..Len(ids) |->
                    [rsid |-> ids[i],
                     field_differences |->
                        SelectSeq(DiffFields,
                                  LAMBDA f : dict1[ids[i]][f] # dict2[ids[i]][f])]]]

FirstFive(s) == SubSeq(s, 1, IF Len(s) < 5 THEN Len(s) ELSE 5)

\* the part of validate_determinism after the runs
ValidationReport(all_results, hashes) ==
    LET unique_hashes == SeqToSet(hashes)
        is_deterministic == Cardinality(unique_hashes) = 1
        diffs == [k \in 2..Len(all_results) |->
                     FindResultDifferences(all_results[1], all_results[k])]
        header == [type |-> "non_deterministic", run |-> 0,
                   unique_hashes |-> Cardinality(unique_hashes), differences |-> <<>>]
        RECURSIVE RunDifferences(_)
        RunDifferences(k) ==
            IF k > Len(all_results) THEN <<>>
            ELSE (IF diffs[k].differences # <<>>
                  THEN <<[type |-> "run_difference", run |-> k - 1, unique_hashes |-> 0,
                          differences |-> FirstFive(diffs[k].differences)]>>
                  ELSE <<>>) \o RunDifferences(k + 1)
    IN  IF ~is_deterministic /\ \E k \in 2..Len(all_results) : diffs[k].raised
        THEN [status |-> "raised", passed |-> FALSE, discrepancies |-> <<>>]
        ELSE [status |-> "report", passed |-> is_deterministic,
              discrepancies |-> IF is_deterministic THEN <<>>
                                ELSE <<header>> \o RunDifferences(2)]

\* validate_determinism called with the default threshold and limit=test_snps
ValInit ==
    /\ genome_data = [rsid \in 1..NumMarkers |-> GenomeOf(rsid)]
    /\ \E k \in 0..NumMarkers : snpedia_cache = [rsid \in 1..k |-> TableInfo(rsid)]
    /\ magnitude_threshold = 0
    /\ gpu_accelerator \in GpuStates
    /\ npu_accelerator \in NpuStates
    /\ limit = Some(TestSnps)
    /\ RunStart
    /\ ValStart
    /\ SchedStart
    /\ SetupStart
    /\ BalancerStart
    /\ SimpleStart
    /\ CUDA_AVAILABLE = FALSE
    /\ torch_device = "none"

\* the end of one iteration of the run loop: sort by rsid, keep the results and
\* their digest; the next iteration builds a new analyzer and starts its run
RecordRun ==
    /\ main_pc = "returned"
    /\ run_idx < Runs
    /\ LET sorted == SortByRsid(results)
       IN  /\ run_results' = Append(run_results, sorted)
           /\ run_hashes' = Append(run_hashes, HashResults(sorted))
    /\ returned' = IF run_idx = 0 THEN Some(results) ELSE returned
    /\ run_idx' = run_idx + 1
    /\ main_pc' = IF run_idx + 1 < Runs THEN "start_gpu" ELSE "all_runs"
    /\ rsid_queue' = IF run_idx + 1 < Runs THEN Limited(all_rsids, limit) ELSE <<>>
    /\ result_queue' = <<>>
    /\ thread_pc' = [u \in Units |-> "idle"]
    /\ thread_batch' = [u \in Units |-> <<>>]
    /\ thread_out' = [u \in Units |-> <<>>]
    /\ cpu_batch' = <<>>
    /\ cpu_batches' = <<>>
    /\ cpu_consumed' = {}
    /\ main_out' = <<>>
    /\ results' = <<>>
    /\ batches' = [u \in Units |-> <<>>]
    /\ produced' = {}
    /\ arrival' = <<>>
    /\ errors' = <<>>
    /\ UNCHANGED <<config_vars, report, sched_vars, simple_vars, rest_vars>>

\* the digests are compared and the ValidationResult is built, or
\* _find_result_differences raises out of validate_determinism
Report ==
    /\ main_pc = "all_runs"
    /\ main_pc' = "validated"
    /\ report' = ValidationReport(run_results, run_hashes)
    /\ UNCHANGED <<config_vars, rsid_queue, result_queue, thread_pc, thread_batch,
                   thread_out, cpu_batch, cpu_batches, cpu_consumed, main_out, results,
                   batches, produced, arrival, errors, run_idx, run_results,
                   run_hashes, returned, sched_vars, simple_vars, rest_vars>>

NextValidate == AnalyzeHybrid \/ RecordRun \/ Report

\* validate_determinism over runs in which no batch processing raises
SpecValidate == ValInit /\ [][NextValidate]_vars

\* the record of a marker after the knowledge base was rebuilt: another
\* interpretation text and one more reference, the other attributes unchanged
TableInfoRevised(rsid) ==
    [TableInfo(rsid) EXCEPT !.genotypes = (<<"A", "G">> :> "carrier"),
                            !.references = <<rsid, 12>>]

\* preload_snpedia of the analyzer the next iteration builds: it
\* reads db_path again, here after the database file was replaced
DatabaseRewritten ==
    /\ main_pc = "returned"
    /\ run_idx + 1 < Runs
    /\ \E revised \in BOOLEAN :
          /\ snpedia_cache' = [rsid \in DOMAIN snpedia_cache |->
                                   IF revised THEN TableInfoRevised(rsid)
                                   ELSE TableInfo(rsid)]
          /\ snpedia_cache' # snpedia_cache
    /\ UNCHANGED <<genome_data, magnitude_threshold, gpu_accelerator, npu_accelerator,
                   limit, rsid_queue, result_queue, thread_pc, thread_batch,
                   thread_out, main_pc, cpu_batch, cpu_batches, cpu_consumed, main_out,
                   results, batches, produced, arrival, errors, val_vars, sched_vars,
                   simple_vars, rest_vars>>

NextDigest == AnalyzeHybrid \/ RecordRun \/ Report \/ DatabaseRewritten

SpecDigest == ValInit /\ [][NextDigest]_vars

\* ------------------------------------------- IntelligentScheduler at work
\* what the monitor can measure
\* <<cpu percent, free system memory, free GPU memory>> of one measurement
Measurements == {<<10, 4096, 3200>>, <<79, 4096, 1600>>, <<95, 512, 400>>}

\* <<CUDA_AVAILABLE, torch_device>> of the machines considered
Platforms == {<<FALSE, "none">>, <<TRUE, "none">>, <<TRUE, "cuda">>, <<FALSE, "mps">>}

\* what callers submit
Priorities == {1, 10}
MemoryRequirements == {1}
ProcessingTimes == {0, 1}
RecordedBatchSizes == {2}

\* a standalone scheduler: the analyzer variables stay as constructed
SchedInit ==
    /\ genome_data = [rsid \in 1..NumMarkers |-> GenomeOf(rsid)]
    /\ snpedia_cache = [rsid \in 1..NumMarkers |-> TableInfo(rsid)]
    /\ magnitude_threshold = 0
    /\ gpu_accelerator = "off"
    /\ npu_accelerator = "off"
    /\ limit = None
    /\ RunStart
    /\ ValStart
    /\ SchedStart
    /\ SetupStart
    /\ BalancerStart
    /\ SimpleStart
    /\ \E pl \in Platforms : CUDA_AVAILABLE = pl[1] /\ torch_device = pl[2]

\* a monitor that writes the new values into the published object: a reference
\* to it goes on pointing at the current state
ReplacedInPlace(ref) == ref

\* what a reference to the published ResourceState points at once the monitor
\* has assigned a newly constructed object to current_state
Replaced(ref) == IF ref = "current" THEN "old" ELSE ref

\* one pass of ResourceMonitor._monitor_loop: the snapshot is replaced by a new
\* object; the one a reader holds stays as it was. The
\* history variable saturated follows the unit states of the design with the
\* smallest margin, one percent point.
MonitorLoop ==
    /\ \E m \in Measurements, gpu_query_ok \in BOOLEAN :
          current_state' = MonitorSample(m[1], m[2], m[3], gpu_query_ok)
    /\ saturated' = {u \in ComputeUnits :
                        \/ UsageOf(current_state', u) > ThresholdOf(u)
                        \/ u \in saturated /\ UsageOf(current_state', u) >= ThresholdOf(u) - 1}
    /\ reader_ref' = Replaced(reader_ref)
    /\ old_state' = IF reader_ref = "current" /\ Replaced(reader_ref) = "old"
                    THEN current_state ELSE old_state
    /\ UNCHANGED <<hybrid_vars, val_vars, simple_vars, rest_vars, call_vars, reader_seen, handed_out, recorded, CUDA_AVAILABLE,
                   torch_device, work_queues,
                   active_workers, performance_history, clock, submit_result,
                   worker_pc, worker_batch>>

\* the fields get_scheduling_stats reads from its local state, in its order
StatsFields == <<"cpu_usage", "cpu_available_cores", "gpu_usage", "gpu_memory_free",
                 "system_memory_free">>

\* get_scheduling_stats: state = self.resource_monitor.get_current_state()
StatsGetState ==
    /\ reader_ref = "none"
    /\ reader_ref' = "current"
    /\ reader_seen' = <<>>
    /\ UNCHANGED <<hybrid_vars, val_vars, simple_vars, rest_vars, call_vars, old_state, handed_out, saturated,
                   recorded, CUDA_AVAILABLE, torch_device, current_state, work_queues,
                   active_workers, performance_history, clock, submit_result,
                   worker_pc, worker_batch>>

\* get_scheduling_stats: the next state.<field> is evaluated, without any lock
StatsReadField ==
    /\ reader_ref # "none"
    /\ Len(reader_seen) < Len(StatsFields)
    /\ LET state == IF reader_ref = "current" THEN current_state ELSE old_state
       IN  reader_seen' = Append(reader_seen, state[StatsFields[Len(reader_seen) + 1]])
    /\ UNCHANGED <<hybrid_vars, val_vars, simple_vars, rest_vars, call_vars, reader_ref, old_state, handed_out,
                   saturated, recorded, CUDA_AVAILABLE, torch_device, current_state,
                   work_queues, active_workers, performance_history, clock,
                   submit_result, worker_pc, worker_batch>>

\* get_scheduling_stats returns; its local state is dropped
StatsReturn ==
    /\ reader_ref # "none"
    /\ Len(reader_seen) = Len(StatsFields)
    /\ reader_ref' = "none"
    /\ UNCHANGED <<hybrid_vars, val_vars, simple_vars, rest_vars, call_vars, reader_seen, old_state, handed_out,
                   saturated, recorded, CUDA_AVAILABLE, torch_device, current_state,
                   work_queues, active_workers, performance_history, clock,
                   submit_result, worker_pc, worker_batch>>

WorkBatch(batch_id, priority, compute_unit, memory_requirement) ==
    [batch_id |-> batch_id, priority |-> priority, compute_unit |-> compute_unit,
     memory_requirement |-> memory_requirement]

\* submit_work, under scheduling_lock, reading the time now from time.time(); a
\* put that raises TypeError leaves submit_work with the item in the heap list
SubmitWorkAt(batch, now) ==
    /\ clock' = clock + 1
    /\ LET state == current_state
           alternative_unit == FindAlternativeComputeUnit(batch, state)
           moved == [batch EXCEPT !.compute_unit = alternative_unit[1]]
           QueueItem(b) == <<CalculateDynamicPriority(b, state, performance_history), now, b>>
           Enqueue(b) ==
               /\ work_queues' = [work_queues EXCEPT ![b.compute_unit] = QueuePut(@, QueueItem(b))]
               /\ submit_result' = IF HeapPush(work_queues[b.compute_unit], QueueItem(b)).raised
                                   THEN "TypeError"
                                   ELSE TRUE
       IN  IF CanSchedule(batch, state, active_workers)
           THEN Enqueue(batch)
           ELSE IF alternative_unit # None
                THEN Enqueue(moved)
                ELSE /\ work_queues' = work_queues
                     /\ submit_result' = FALSE
    /\ UNCHANGED <<hybrid_vars, val_vars, simple_vars, rest_vars, call_vars, reader_vars, handed_out, saturated, recorded, CUDA_AVAILABLE,
                   torch_device, current_state,
                   active_workers, performance_history, worker_pc, worker_batch>>

\* submit_work when time.time() has advanced since the previous submission
SubmitWork(batch) ==
    /\ clock < MaxSubmits
    /\ SubmitWorkAt(batch, clock + 1)

\* get_next_work by an idle worker: the head of the unit's queue; an empty
\* queue gives None and the worker stays idle. Idle workers are
\* interchangeable, the one of lowest index is taken to call.
GetNextWork(w, compute_unit) ==
    /\ worker_pc[w] = "idle"
    /\ \A v \in 1..(w - 1) : worker_pc[v] # "idle"
    /\ work_queues[compute_unit] # <<>>
    /\ ~HeapPop(work_queues[compute_unit]).raised
    /\ worker_batch' = [worker_batch EXCEPT ![w] = Some(HeapPop(work_queues[compute_unit]).item[3])]
    /\ work_queues' = [work_queues EXCEPT ![compute_unit] = QueueGet(@)]
    /\ worker_pc' = [worker_pc EXCEPT ![w] = "got"]
    /\ handed_out' = handed_out \cup
           {[batch_id |-> HeapPop(work_queues[compute_unit]).item[3].batch_id,
             unit |-> compute_unit]}
    /\ UNCHANGED <<hybrid_vars, val_vars, simple_vars, rest_vars, call_vars, reader_vars, CUDA_AVAILABLE,
                   torch_device, current_state,
                   active_workers, performance_history, clock, submit_result,
                   saturated, recorded>>

\* get_next_work when the comparison inside get_nowait raises TypeError: only
\* queue.Empty is caught, so the caller gets the exception and no batch, and the
\* heap list stays as heappop left it
GetNextWorkRaise(w, compute_unit) ==
    /\ worker_pc[w] = "idle"
    /\ \A v \in 1..(w - 1) : worker_pc[v] # "idle"
    /\ work_queues[compute_unit] # <<>>
    /\ HeapPop(work_queues[compute_unit]).raised
    /\ work_queues' = [work_queues EXCEPT ![compute_unit] = QueueGet(@)]
    /\ UNCHANGED <<hybrid_vars, val_vars, simple_vars, rest_vars, call_vars, reader_vars, handed_out, saturated, recorded, CUDA_AVAILABLE,
                   torch_device, current_state,
                   active_workers, performance_history, clock, submit_result,
                   worker_pc, worker_batch>>

\* register_worker_start by the worker that holds a batch, for the batch's unit
RegisterWorkerStart(w) ==
    /\ worker_pc[w] = "got"
    /\ active_workers' = [active_workers EXCEPT ![worker_batch[w][1].compute_unit] = @ + 1]
    /\ worker_pc' = [worker_pc EXCEPT ![w] = "running"]
    /\ UNCHANGED <<hybrid_vars, val_vars, simple_vars, rest_vars, call_vars, reader_vars, handed_out, saturated, recorded, CUDA_AVAILABLE,
                   torch_device, current_state,
                   work_queues, performance_history, clock, submit_result, worker_batch>>

\* register_worker_end by the worker that finished its batch
RegisterWorkerEnd(w) ==
    /\ worker_pc[w] = "running"
    /\ active_workers' = [active_workers EXCEPT ![worker_batch[w][1].compute_unit] =
                              Max(0, @ - 1)]
    /\ worker_pc' = [worker_pc EXCEPT ![w] = "idle"]
    /\ worker_batch' = [worker_batch EXCEPT ![w] = None]
    /\ UNCHANGED <<hybrid_vars, val_vars, simple_vars, rest_vars, call_vars, reader_vars, handed_out, saturated, recorded, CUDA_AVAILABLE,
                   torch_device, current_state,
                   work_queues, performance_history, clock, submit_result>>

\* a trim that keeps the oldest entries of the list
KeepOldest(history) ==
    IF Len(history) > HistoryKeep THEN SubSeq(history, 1, HistoryKeep) ELSE history

\* record_performance's trim of the history after the append
KeepRecent(history) ==
    IF Len(history) > HistoryKeep THEN LastN(history, HistoryKeep) ELSE history

\* record_performance
RecordPerformanceCall(compute_unit, processing_time, batch_size) ==
    /\ LET performance == IF processing_time > 0
                          THEN batch_size \div processing_time ELSE 0
       IN  /\ performance_history' =
                  [performance_history EXCEPT ![compute_unit] =
                      KeepRecent(Append(@, performance))]
           /\ recorded' = [recorded EXCEPT ![compute_unit] = Append(@, performance)]
    /\ UNCHANGED <<hybrid_vars, val_vars, simple_vars, rest_vars, call_vars, reader_vars, handed_out, saturated, CUDA_AVAILABLE,
                   torch_device, current_state,
                   work_queues, active_workers, clock, submit_result, worker_pc,
                   worker_batch>>

\* the number of record_performance calls so far
Recorded == Sum([i \in 1..Len(ComputeUnit) |-> Len(recorded[ComputeUnit[i]])])

\* record_performance while the scheduler is at work, a few reports at most
RecordPerformance(compute_unit, processing_time, batch_size) ==
    /\ Recorded < MaxRecords
    /\ RecordPerformanceCall(compute_unit, processing_time, batch_size)

\* ------------------------------ the scheduler's methods, statement by statement
\* the threads that call into the scheduler
Threads == Workers

\* a thread enters register_worker_start or register_worker_end and reaches
\* `with self.scheduling_lock`
CallRegisterWorker(t, op, compute_unit) ==
    /\ call_pc[t] = "idle"
    /\ op = "register_worker_start" => active_workers[compute_unit] < NumWorkers
    /\ call_pc' = [call_pc EXCEPT ![t] = "acquire"]
    /\ call_op' = [call_op EXCEPT ![t] =
                       [op |-> op, compute_unit |-> compute_unit, batch |-> <<>>]]
    /\ UNCHANGED <<hybrid_vars, val_vars, simple_vars, rest_vars, reader_vars, handed_out, saturated,
                   recorded, CUDA_AVAILABLE, torch_device, current_state, work_queues,
                   active_workers, performance_history, clock, submit_result, worker_pc,
                   worker_batch, scheduling_lock, call_seen, call_slice>>

\* threading.Lock.acquire returns: the lock was free and is now held by t
AcquireLock(t) ==
    /\ call_pc[t] = "acquire"
    /\ scheduling_lock = 0
    /\ scheduling_lock' = t
    /\ call_pc' = [call_pc EXCEPT ![t] = "locked"]
    /\ UNCHANGED <<hybrid_vars, val_vars, simple_vars, rest_vars, reader_vars, handed_out, saturated,
                   recorded, CUDA_AVAILABLE, torch_device, current_state, work_queues,
                   active_workers, performance_history, clock, submit_result, worker_pc,
                   worker_batch, call_op, call_seen, call_slice>>

\* the body of register_worker_start / register_worker_end and the release
RegisterLocked(t) ==
    /\ call_pc[t] = "locked"
    /\ call_op[t].op \in {"register_worker_start", "register_worker_end"}
    /\ active_workers' = [active_workers EXCEPT ![call_op[t].compute_unit] =
                              IF call_op[t].op = "register_worker_start"
                              THEN @ + 1 ELSE Max(0, @ - 1)]
    /\ scheduling_lock' = 0
    /\ call_pc' = [call_pc EXCEPT ![t] = "idle"]
    /\ call_op' = [call_op EXCEPT ![t] = NoCall]
    /\ UNCHANGED <<hybrid_vars, val_vars, simple_vars, rest_vars, reader_vars, handed_out, saturated,
                   recorded, CUDA_AVAILABLE, torch_device, current_state, work_queues,
                   performance_history, clock, submit_result, worker_pc,
                   worker_batch, call_seen, call_slice>>

\* record_performance: self.performance_history[compute_unit].append(performance)
RecordAppend(t, compute_unit, processing_time, batch_size) ==
    /\ call_pc[t] = "idle"
    /\ LET performance == IF processing_time > 0
                          THEN batch_size \div processing_time ELSE 0
       IN  /\ performance_history' =
                  [performance_history EXCEPT ![compute_unit] = Append(@, performance)]
           /\ recorded' = [recorded EXCEPT ![compute_unit] = Append(@, performance)]
    /\ call_pc' = [call_pc EXCEPT ![t] = "rp_test"]
    /\ call_op' = [call_op EXCEPT ![t] = [op |-> "record_performance",
                                          compute_unit |-> compute_unit, batch |-> <<>>]]
    /\ UNCHANGED <<hybrid_vars, val_vars, simple_vars, rest_vars, reader_vars, handed_out, saturated,
                   CUDA_AVAILABLE, torch_device, current_state, work_queues,
                   active_workers, clock, submit_result, worker_pc,
                   worker_batch, scheduling_lock, call_seen, call_slice>>

\* record_performance: if len(self.performance_history[compute_unit]) > 20
RecordTest(t) ==
    /\ call_pc[t] = "rp_test"
    /\ IF Len(performance_history[call_op[t].compute_unit]) > HistoryKeep
       THEN /\ call_pc' = [call_pc EXCEPT ![t] = "rp_slice"]
            /\ call_op' = call_op
       ELSE /\ call_pc' = [call_pc EXCEPT ![t] = "idle"]
            /\ call_op' = [call_op EXCEPT ![t] = NoCall]
    /\ UNCHANGED <<hybrid_vars, val_vars, simple_vars, rest_vars, reader_vars, handed_out, saturated,
                   recorded, CUDA_AVAILABLE, torch_device, current_state, work_queues,
                   active_workers, performance_history, clock, submit_result, worker_pc,
                   worker_batch, scheduling_lock, call_seen, call_slice>>

\* record_performance: the right-hand side self.performance_history[...][-20:]
RecordSlice(t) ==
    /\ call_pc[t] = "rp_slice"
    /\ call_slice' = [call_slice EXCEPT ![t] =
                          LastN(performance_history[call_op[t].compute_unit], HistoryKeep)]
    /\ call_pc' = [call_pc EXCEPT ![t] = "rp_store"]
    /\ UNCHANGED <<hybrid_vars, val_vars, simple_vars, rest_vars, reader_vars, handed_out, saturated,
                   recorded, CUDA_AVAILABLE, torch_device, current_state, work_queues,
                   active_workers, performance_history, clock, submit_result, worker_pc,
                   worker_batch, scheduling_lock, call_op, call_seen>>

\* record_performance: the assignment self.performance_history[compute_unit] = ...
RecordStore(t) ==
    /\ call_pc[t] = "rp_store"
    /\ performance_history' =
           [performance_history EXCEPT ![call_op[t].compute_unit] = call_slice[t]]
    /\ call_slice' = [call_slice EXCEPT ![t] = <<>>]
    /\ call_pc' = [call_pc EXCEPT ![t] = "idle"]
    /\ call_op' = [call_op EXCEPT ![t] = NoCall]
    /\ UNCHANGED <<hybrid_vars, val_vars, simple_vars, rest_vars, reader_vars, handed_out, saturated,
                   recorded, CUDA_AVAILABLE, torch_device, current_state, work_queues,
                   active_workers, clock, submit_result, worker_pc,
                   worker_batch, scheduling_lock, call_seen>>

\* a thread enters submit_work with a new batch and reaches
\* `with self.scheduling_lock`; the caller keeps the batch object
CallSubmitWork(t, batch) ==
    /\ call_pc[t] = "idle"
    /\ call_pc' = [call_pc EXCEPT ![t] = "acquire"]
    /\ call_op' = [call_op EXCEPT ![t] = [op |-> "submit_work",
                                          compute_unit |-> batch.compute_unit,
                                          batch |-> batch]]
    /\ call_seen' = [call_seen EXCEPT ![t] = <<>>]
    /\ clock' = clock + 1
    /\ UNCHANGED <<hybrid_vars, val_vars, simple_vars, rest_vars, reader_vars, handed_out, saturated,
                   recorded, CUDA_AVAILABLE, torch_device, current_state, work_queues,
                   active_workers, performance_history, submit_result, worker_pc,
                   worker_batch, scheduling_lock, call_slice>>

\* submit_work: if self._can_schedule(batch), with its get_current_state()
SubmitCanSchedule(t) ==
    /\ call_pc[t] = "locked"
    /\ call_op[t].op = "submit_work"
    /\ LET state == current_state
       IN  /\ call_seen' = [call_seen EXCEPT ![t] = Append(@, state)]
           /\ call_pc' = [call_pc EXCEPT ![t] =
                              IF CanSchedule(call_op[t].batch, state, active_workers)
                              THEN "priority" ELSE "alternative"]
    /\ UNCHANGED <<hybrid_vars, val_vars, simple_vars, rest_vars, reader_vars, handed_out, saturated,
                   recorded, CUDA_AVAILABLE, torch_device, current_state, work_queues,
                   active_workers, performance_history, clock, submit_result, worker_pc,
                   worker_batch, scheduling_lock, call_op, call_slice>>

\* an assignment of the alternative made before it is tested
ReroutedUntested(batch, alternative_unit) ==
    [batch EXCEPT !.compute_unit = IF alternative_unit = None THEN "none"
                                   ELSE alternative_unit[1]]

\* if alternative_unit: batch.compute_unit = alternative_unit
Rerouted(batch, alternative_unit) ==
    IF alternative_unit # None
    THEN [batch EXCEPT !.compute_unit = alternative_unit[1]]
    ELSE batch

\* submit_work: the else branch, with the get_current_state() of
\* _find_alternative_compute_unit; without an alternative it returns False
SubmitAlternative(t) ==
    /\ call_pc[t] = "alternative"
    /\ LET state == current_state
           alternative_unit == FindAlternativeComputeUnit(call_op[t].batch, state)
       IN  /\ call_op' = [call_op EXCEPT ![t].batch = Rerouted(@, alternative_unit)]
           /\ IF alternative_unit # None
              THEN /\ call_pc' = [call_pc EXCEPT ![t] = "priority"]
                   /\ call_seen' = [call_seen EXCEPT ![t] = Append(@, state)]
                   /\ UNCHANGED <<scheduling_lock, submit_result>>
              ELSE /\ call_pc' = [call_pc EXCEPT ![t] = "idle"]
                   /\ call_seen' = [call_seen EXCEPT ![t] = <<>>]
                   /\ scheduling_lock' = 0
                   /\ submit_result' = FALSE
    /\ UNCHANGED <<hybrid_vars, val_vars, simple_vars, rest_vars, reader_vars, handed_out, saturated,
                   recorded, CUDA_AVAILABLE, torch_device, current_state, work_queues,
                   active_workers, performance_history, clock, worker_pc,
                   worker_batch, call_slice>>

\* submit_work: _calculate_dynamic_priority with its get_current_state(), the
\* put and the return (or the TypeError of the put); the lock is released
SubmitEnqueue(t) ==
    /\ call_pc[t] = "priority"
    /\ clock' = clock + 1
    /\ LET state == current_state
           batch == call_op[t].batch
           queue_item == <<CalculateDynamicPriority(batch, state, performance_history),
                           clock + 1, batch>>
       IN  /\ call_seen' = [call_seen EXCEPT ![t] = <<>>]
           /\ work_queues' = [work_queues EXCEPT ![batch.compute_unit] =
                                  QueuePut(@, queue_item)]
           /\ submit_result' = IF HeapPush(work_queues[batch.compute_unit], queue_item).raised
                               THEN "TypeError" ELSE TRUE
    /\ call_pc' = [call_pc EXCEPT ![t] = "idle"]
    /\ scheduling_lock' = 0
    /\ UNCHANGED <<hybrid_vars, val_vars, simple_vars, rest_vars, reader_vars, handed_out, saturated,
                   recorded, CUDA_AVAILABLE, torch_device, current_state,
                   active_workers, performance_history, worker_pc,
                   worker_batch, call_op, call_slice>>

\* the thread that submits
Submitters == {1}

\* the worker thread that registers itself
Registrars == {2}

\* the monitor thread, a thread that submits batches, one call after another,
\* and worker threads that register themselves
NextCalls ==
    \/ MonitorLoop
    \/ \E t \in Submitters, u \in ComputeUnits, p \in Priorities, m \in MemoryRequirements :
          /\ clock <= MaxSubmits
          /\ CallSubmitWork(t, WorkBatch(clock + 1, p, u, m))
    \/ \E t \in Registrars,
          op \in {"register_worker_start", "register_worker_end"} :
          CallRegisterWorker(t, op, "npu")
    \/ \E t \in Submitters \cup Registrars : AcquireLock(t)
    \/ \E t \in Registrars : RegisterLocked(t)
    \/ \E t \in Submitters : SubmitCanSchedule(t)
    \/ \E t \in Submitters : SubmitAlternative(t)
    \/ \E t \in Submitters : SubmitEnqueue(t)

SpecCalls == SchedInit /\ [][NextCalls]_vars

\* worker threads that register themselves and report their throughput
NextLocking ==
    \/ \E t \in Threads, u \in {"cpu", "gpu"},
          op \in {"register_worker_start", "register_worker_end"} :
          CallRegisterWorker(t, op, u)
    \/ \E t \in Threads : AcquireLock(t)
    \/ \E t \in Threads : RegisterLocked(t)
    \/ \E t \in Threads :
          /\ Recorded < MaxHistory
          /\ RecordAppend(t, "cpu", 1, Recorded + 1)
    \/ \E t \in Threads : RecordTest(t)
    \/ \E t \in Threads : RecordSlice(t)
    \/ \E t \in Threads : RecordStore(t)

\* a scheduler on a machine without accelerators
LockingInit ==
    /\ SchedInit
    /\ ~CUDA_AVAILABLE
    /\ torch_device = "none"

SpecLocking == LockingInit /\ [][NextLocking]_vars

NextSched ==
    \/ MonitorLoop
    \/ \E u \in ComputeUnits, p \in Priorities, m \in MemoryRequirements :
          SubmitWork(WorkBatch(clock + 1, p, u, m))
    \/ \E w \in Workers, u \in ComputeUnits : GetNextWork(w, u)
    \/ \E w \in Workers : RegisterWorkerStart(w)
    \/ \E w \in Workers : RegisterWorkerEnd(w)
    \/ \E u \in ComputeUnits, t \in ProcessingTimes, n \in RecordedBatchSizes :
          RecordPerformance(u, t, n)

\* the scheduler driven by a monitor thread, submitters and worker threads
SpecSched == SchedInit /\ [][NextSched]_vars

\* the scheduler's queue traffic alone: monitor, submitters and workers, with
\* no performance report arriving
NextHandout ==
    \/ MonitorLoop
    \/ \E u \in ComputeUnits, p \in Priorities, m \in MemoryRequirements :
          SubmitWork(WorkBatch(clock + 1, p, u, m))
    \/ \E w \in Workers, u \in ComputeUnits : GetNextWork(w, u)
    \/ \E w \in Workers : RegisterWorkerStart(w)
    \/ \E w \in Workers : RegisterWorkerEnd(w)

SpecHandout == SchedInit /\ [][NextHandout]_vars

\* the monitor and the submitters alone, before any worker or report acts
NextSubmit ==
    \/ MonitorLoop
    \/ \E u \in ComputeUnits, p \in Priorities, m \in MemoryRequirements :
          SubmitWork(WorkBatch(clock + 1, p, u, m))

SpecSubmit == SchedInit /\ [][NextSubmit]_vars

\* the submissions alone: monitor, submitters and performance reports, with no
\* worker taking a batch off a queue
NextPriority ==
    \/ MonitorLoop
    \/ \E u \in ComputeUnits, p \in Priorities, m \in MemoryRequirements :
          SubmitWork(WorkBatch(clock + 1, p, u, m))
    \/ \E u \in ComputeUnits, t \in ProcessingTimes, n \in RecordedBatchSizes :
          RecordPerformance(u, t, n)

SpecPriority == SchedInit /\ [][NextPriority]_vars

\* a long series of performance reports: report k is for a batch of k items
\* done in one second, so every rate tells when it was recorded; they go to
\* the CPU, and now and then one to the GPU
NextHistory ==
    /\ Recorded < MaxHistory
    /\ \E u \in {"cpu", "gpu"} :
          /\ u = "gpu" => Len(recorded["gpu"]) < MaxGpuReports
          /\ RecordPerformanceCall(u, 1, Recorded + 1)

SpecHistory == SchedInit /\ [][NextHistory]_vars

\* a reader of the statistics running next to the monitor thread
NextSnapshot == MonitorLoop \/ StatsGetState \/ StatsReadField \/ StatsReturn

SpecSnapshot == SchedInit /\ [][NextSnapshot]_vars

\* the queue traffic when time.time() may read the same value in two
\* submissions in a row
NextQueue ==
    \/ MonitorLoop
    \/ /\ clock < MaxQueued
       /\ \E u \in ComputeUnits, p \in Priorities, m \in MemoryRequirements :
             \E now \in {clock, clock + 1} : SubmitWorkAt(WorkBatch(clock + 1, p, u, m), now)
    \/ \E w \in Workers, u \in ComputeUnits : GetNextWork(w, u)
    \/ \E w \in Workers, u \in ComputeUnits : GetNextWorkRaise(w, u)
    \/ \E w \in Workers : RegisterWorkerStart(w)
    \/ \E w \in Workers : RegisterWorkerEnd(w)

SpecQueue == SchedInit /\ [][NextQueue]_vars

\* ------------------------------------------- the batch strategies, alone
Alleles == {"A", "G"}

JoinGenotypes == {<<a, b>> : a \in Alleles, b \in Alleles}

\* SNPInfo.genotypes: a mapping from some genotypes to interpretation texts
JoinMaps ==
    UNION {[D -> {"typical", "carrier"}] : D \in SUBSET {<<"A", "G">>, <<"G", "A">>, <<"A", "A">>}}

JoinInfos ==
    {[genotypes |-> m, magnitude |-> mag, summary |-> Some("summary"),
      repute |-> Some("good"), references |-> <<11>>] :
        m \in JoinMaps, mag \in {None, Some(5)}}

\* a batch <<2, 1>>: marker 1 with any genotype, with or without a record;
\* marker 2 possibly not loaded, never annotated
JoinInit ==
    /\ \E g \in JoinGenotypes, D \in {{1}, {1, 2}} :
           genome_data = [rsid \in D |-> IF rsid = 1
                                          THEN [genotype |-> g, chromosome |-> "7",
                                                position |-> 42]
                                          ELSE GenomeOf(rsid)]
    /\ \/ snpedia_cache = <<>>
       \/ \E info \in JoinInfos : snpedia_cache = (1 :> info)
    /\ magnitude_threshold = 0
    /\ gpu_accelerator = "on"
    /\ npu_accelerator \in {"torch", "openvino"}
    /\ limit = None
    /\ rsid_queue = <<>>
    /\ result_queue = <<>>
    /\ thread_pc = [u \in Units |-> "idle"]
    /\ thread_batch = [u \in Units |-> <<>>]
    /\ thread_out = [u \in Units |-> <<>>]
    /\ main_pc = "strategy_call"
    /\ cpu_batch = <<>>
    /\ cpu_batches = <<>>
    /\ cpu_consumed = {}
    /\ main_out = <<>>
    /\ results = <<>>
    /\ batches = [u \in Units |-> <<>>]
    /\ produced = {}
    /\ arrival = <<>>
    /\ errors = <<>>
    /\ ValStart
    /\ SchedStart
    /\ SetupStart
    /\ BalancerStart
    /\ SimpleStart
    /\ CUDA_AVAILABLE = FALSE
    /\ torch_device = "none"

\* one call of a batch strategy on the batch <<2, 1>>
StrategyCall(unit) ==
    /\ main_pc = "strategy_call"
    /\ main_pc' = "strategy_done"
    /\ LET batch == <<2, 1>>
           rs == IF unit = "cpu"
                 THEN cpu_worker_optimized(snpedia_cache, BatchGenome(batch), batch)
                 ELSE Strategy(unit, batch)
       IN  /\ produced' = SeqToSet(rs)
           /\ results' = rs
           /\ cpu_batches' = IF unit = "cpu" THEN <<batch>> ELSE cpu_batches
           /\ batches' = IF unit = "cpu" THEN batches
                         ELSE [batches EXCEPT ![unit] = <<batch>>]
    /\ UNCHANGED <<config_vars, rsid_queue, result_queue, thread_pc, thread_batch,
                   thread_out, cpu_batch, cpu_consumed, main_out, arrival, errors,
                   val_vars, sched_vars, simple_vars, rest_vars>>

NextJoin == \E unit \in {"cpu", "gpu", "npu"} : StrategyCall(unit)

\* the three batch strategies applied to every genotype and annotation record
SpecJoin == JoinInit /\ [][NextJoin]_vars

\* ------------------------------------------------------------------ claims
RECURSIVE Flatten(_)
Flatten(bs) == IF bs = <<>> THEN <<>> ELSE Head(bs) \o Flatten(Tail(bs))

\* every batch formed so far, on any unit
AllBatches == batches["gpu"] \o batches["npu"] \o cpu_batches

InputIds == SeqToSet(Limited(all_rsids, limit))

NoDuplicates(s) == \A i, j \in 1..Len(s) : i # j => s[i] # s[j]

\* C1: under every interleaving of the GPU thread, the NPU thread and the CPU
\* batcher, no marker id is in two batches or twice in one batch, every batch
\* holds input ids only, and when analyze_hybrid returns the union of the
\* batches is the input id set.
C1_PartitionExhaustive ==
    LET ids == Flatten(AllBatches)
    IN  /\ NoDuplicates(ids)
        /\ SeqToSet(ids) \subseteq InputIds
        /\ main_pc = "returned" => SeqToSet(ids) = InputIds

C1_Witness ==
    /\ main_pc = "returned"
    /\ batches["gpu"] # <<>>
    /\ batches["npu"] # <<>>
    /\ cpu_batches # <<>>

\* C2: when an accelerator failed to initialise, a run with threshold 0 returns
\* exactly one result for every input marker id.
C2_DisabledUnitNoLoss ==
    (/\ main_pc = "returned"
     /\ magnitude_threshold = 0
     /\ gpu_accelerator = "failed" \/ npu_accelerator = "failed")
    => /\ ResultIds(results) = InputIds
       /\ Len(results) = Cardinality(InputIds)

\* C4: a result a unit produced is in the output of analyze_hybrid exactly
\* when its magnitude is absent or >= the threshold, and the output holds
\* nothing else.
C4_FilterExact ==
    main_pc = "returned" =>
        /\ \A r \in produced :
               r \in SeqToSet(results)
               <=> (r.magnitude = None \/ r.magnitude[1] >= magnitude_threshold)
        /\ SeqToSet(results) \subseteq produced

C4_Witness ==
    /\ main_pc = "returned"
    /\ magnitude_threshold > 0
    /\ \E r \in produced : r \notin SeqToSet(results)
    /\ \E r \in SeqToSet(results) : r.magnitude = None
    /\ \E r \in SeqToSet(results) : r.magnitude # None
    /\ batches["gpu"] # <<>> /\ batches["npu"] # <<>> /\ cpu_batches # <<>>

\* the ordering key of the claim: the magnitude, an absent one ordered as 0
OrderKey(r) == IF r.magnitude = None THEN 0 ELSE r.magnitude[1]

PositionIn(s, r) == CHOOSE k \in 1..Len(s) : s[k] = r

\* C7: the returned sequence is the arrival sequence reordered by descending
\* magnitude (absent as 0), results of equal key keeping their arrival order.
C7_SortedStable ==
    main_pc = "returned" =>
        /\ Len(results) = Len(arrival)
        /\ SeqToSet(results) = SeqToSet(arrival)
        /\ \A i, j \in 1..Len(results) :
               i < j => /\ OrderKey(results[i]) >= OrderKey(results[j])
                        /\ OrderKey(results[i]) = OrderKey(results[j])
                           => PositionIn(arrival, results[i])
                              < PositionIn(arrival, results[j])

C7_Witness ==
    /\ main_pc = "returned"
    /\ results # arrival
    /\ \E i, j \in 1..Len(results) :
           /\ i < j
           /\ OrderKey(results[i]) = OrderKey(results[j])
           /\ results[i].magnitude # results[j].magnitude

\* C5: for a marker with an annotation record the interpretation is the value
\* mapped to the genotype if it is a key, else the value mapped to the
\* reversed genotype if that is a key, else none.
C5_JoinInterpretation ==
    \A r \in produced :
        r.rsid \in DOMAIN snpedia_cache =>
            LET g == genome_data[r.rsid].genotype
                swapped == <<g[2], g[1]>>
                m == snpedia_cache[r.rsid].genotypes
            IN  /\ g \in DOMAIN m => r.interpretation = Some(m[g])
                /\ g \notin DOMAIN m /\ swapped \in DOMAIN m
                   => r.interpretation = Some(m[swapped])
                /\ g \notin DOMAIN m /\ swapped \notin DOMAIN m
                   => r.interpretation = None

C5_Witness ==
    \E r \in produced :
        /\ r.rsid \in DOMAIN snpedia_cache
        /\ LET g == genome_data[r.rsid].genotype
               m == snpedia_cache[r.rsid].genotypes
           IN  /\ g \in DOMAIN m
               /\ <<g[2], g[1]>> \in DOMAIN m
               /\ m[g] # m[<<g[2], g[1]>>]
               /\ r.interpretation = Some(m[g])

PlaceholderWith(r, text) ==
    /\ r.magnitude = None
    /\ r.interpretation = None
    /\ r.repute = None
    /\ r.references = <<>>
    /\ r.summary = Some(text)
    /\ r.user_genotype = genome_data[r.rsid].genotype
    /\ r.chromosome = genome_data[r.rsid].chromosome
    /\ r.position = genome_data[r.rsid].position

\* C6 as stated: the result of a marker without annotation record carries the
\* sentinel summary "no annotation available".
C6_Original ==
    \A r \in produced :
        r.rsid \notin DOMAIN snpedia_cache => PlaceholderWith(r, "no annotation available")

\* C6 amended: the result of a marker without annotation record has
\* magnitude, interpretation and repute none, no references, the marker's
\* genotype and locus, and the summary "No SNPedia information available".
C6_NoAnnotationPlaceholder ==
    \A r \in produced :
        r.rsid \notin DOMAIN snpedia_cache
        => PlaceholderWith(r, "No SNPedia information available")

C6_Witness ==
    /\ main_pc = "strategy_done"
    /\ \E r \in produced : r.rsid \notin DOMAIN snpedia_cache /\ r.rsid = 1
    /\ \E r \in produced : r.rsid = 2


\* C8: a later run of analyze_hybrid on the same markers, the same cache and the
\* same threshold returns the same results in the same order as the first run,
\* whatever the completion order of the GPU, NPU and CPU batches.
C8_SameResultsSameOrder ==
    (main_pc = "returned" /\ run_idx >= 1) => results = returned[1]

\* C9: validate_determinism over three runs of the same workload on an unchanged
\* cache reports is_deterministic = true (passed), for every assignment of
\* markers to units and every completion order.
C9_ReportsDeterministic ==
    main_pc = "validated" => (report.status = "report" /\ report.passed)

\* the ids whose digested fields differ between two runs, with the ids that
\* only one of the two runs holds
DivergentIds(rs1, rs2) ==
    LET d1 == ByRsid(rs1)
        d2 == ByRsid(rs2)
        Row(r) == <<r.user_genotype, r.magnitude, r.repute, r.summary>>
    IN  ((DOMAIN d1 \cup DOMAIN d2) \ (DOMAIN d1 \cap DOMAIN d2))
        \cup {id \in DOMAIN d1 \cap DOMAIN d2 : Row(d1[id]) # Row(d2[id])}

\* C10: whenever two digests differ, validate_determinism returns a report (it
\* does not raise) that lists, for each run whose digest differs from run 1, the
\* marker ids that differ, those held by only one of the two runs included.
C10_ReportListsDivergentIds ==
    (main_pc = "validated" /\ Cardinality(SeqToSet(run_hashes)) > 1) =>
        /\ report.status = "report"
        /\ \A k \in 2..Len(run_results) :
              run_hashes[k] # run_hashes[1] =>
                 \E i \in 1..Len(report.discrepancies) :
                     /\ report.discrepancies[i].type = "run_difference"
                     /\ report.discrepancies[i].run = k - 1
                     /\ ResultIds(report.discrepancies[i].differences)
                           = DivergentIds(run_results[1], run_results[k])

\* the concurrency cap of a unit
Cap(u) == CASE u = "gpu" -> 2
            [] u = "npu" -> 1
            [] u = "cpu" -> num_cpu_workers

\* C3: after any interleaving of submit_work, get_next_work,
\* register_worker_start and register_worker_end, active_workers[unit] never
\* exceeds the unit's cap (2 for GPU, 1 for NPU, the worker count for CPU).
C3_ActiveWithinCap ==
    \A u \in ComputeUnits : active_workers[u] <= Cap(u)

\* the batches a caller can submit next
NextBatches ==
    {WorkBatch(clock + 1, p, u, m) :
        p \in Priorities, u \in ComputeUnits, m \in MemoryRequirements}

\* the units that pass the admission test for a batch in the current state
AdmittingUnits(batch) ==
    {v \in ComputeUnits :
        CanSchedule([batch EXCEPT !.compute_unit = v], current_state, active_workers)}

\* C11: submit_work returns false exactly when neither the preferred unit nor
\* any other unit passes the admission test, and true only when some unit
\* admitted the batch.
C11_FalseIffNoUnitAdmits ==
    [][\A batch \in NextBatches :
          SubmitWork(batch) => (submit_result' = (AdmittingUnits(batch) # {}))]_vars

\* the marker ids of the batches whose processing raised
FailedIds == UNION {SeqToSet(errors[i]) : i \in 1..Len(errors)}

\* C12: when the processing of a batch raised on the GPU, NPU or CPU side, the
\* markers of that batch are not silently missing: the list analyze_hybrid
\* returns is all the caller gets, so it has to account for every one of them.
C12_FailuresNotSilent ==
    main_pc = "returned" => FailedIds \subseteq ResultIds(results)

\* C13: analysing an empty marker id set fails with an error: it produces no
\* result list, so the run never reaches its return.
C13_EmptyInputRejected ==
    Limited(all_rsids, limit) = <<>> => main_pc # "returned"

\* the first L marker ids of the loaded genome
FirstIds(L) == {all_rsids[i] : i \in 1..(IF L < Len(all_rsids) THEN L ELSE Len(all_rsids))}

\* C16: a run with limit = L, for every L >= 0 and every threshold, returns
\* only results of the first L marker ids of the genome.
C16_AtMostLimit ==
    (main_pc = "returned" /\ limit # None) => ResultIds(results) \subseteq FirstIds(limit[1])

\* C14: a progress sink passed to analyze_hybrid is pushed updates during the
\* run: at least one update is delivered before the call returns, the
\* completed count never exceeds the total, and counts never decrease.
C14_ProgressPushed ==
    /\ main_pc = "returned" => Len(progress) >= 1
    /\ \A i \in 1..Len(progress) : progress[i].completed <= progress[i].total
    /\ \A i \in 1..(Len(progress) - 1) : progress[i].completed <= progress[i + 1].completed

\* C15: for every batch, genome and cache, the GPU strategy and the NPU
\* strategies (torch and OpenVINO) return what the CPU strategy returns: the
\* same results with identical magnitude, repute, summary, interpretation
\* and references.
C15_StrategiesAgree ==
    main_pc = "strategy_done" =>
        LET batch == Flatten(AllBatches)
        IN  results = cpu_worker_optimized(snpedia_cache, BatchGenome(batch), batch)

\* C17: every batch get_next_work hands out comes from the queue of the unit
\* the caller asked for, carries that unit as its compute_unit, and has not
\* been handed out before, also with several workers calling concurrently.
C17_HandedOutOnce ==
    [][\A w \in Workers, u \in ComputeUnits :
          GetNextWork(w, u) =>
             LET b == worker_batch'[w][1]
             IN  /\ b.compute_unit = u
                 /\ \A h \in handed_out : h.batch_id # b.batch_id
                 /\ \A v \in Workers \ {w} : worker_batch[v] # Some(b)]_vars

\* two workers hold batches they took from the same queue
C17_Witness ==
    \E w1, w2 \in Workers :
        /\ w1 # w2
        /\ worker_batch[w1] # None
        /\ worker_batch[w2] # None
        /\ worker_batch[w1][1].compute_unit = worker_batch[w2][1].compute_unit
        /\ Cardinality(handed_out) = 2

\* the admission test: Available, a free worker slot, memory beyond the reserve
Admissible(batch, u) ==
    /\ UsageOf(current_state, u) <= ThresholdOf(u)
    /\ active_workers[u] < Cap(u)
    /\ FreeMemoryOf(current_state, u) > batch.memory_requirement + memory_reserve_mb

\* submit_work put the batch on the queue of unit u
EnqueuedOn(u) == Len(work_queues'[u]) = Len(work_queues[u]) + 1

\* C18: submit_work enqueues a batch on its preferred unit, without rerouting,
\* only if that unit is within its utilisation threshold, has a free worker
\* slot and has free memory above the batch's requirement plus the reserve;
\* for CPU, GPU and NPU alike.
C18_AdmissionOnPreferred ==
    [][\A batch \in NextBatches :
          (SubmitWork(batch) /\ EnqueuedOn(batch.compute_unit))
             => Admissible(batch, batch.compute_unit)]_vars

\* C19: a batch whose preferred unit fails admission is enqueued only on another
\* unit that passes the admission test the preferred unit was put to
\* (utilisation, worker slot, memory); a unit failing it is never the target.
C19_RerouteTargetAdmits ==
    [][\A batch \in NextBatches : \A v \in ComputeUnits \ {batch.compute_unit} :
          (SubmitWork(batch) /\ EnqueuedOn(v))
             => CanSchedule([batch EXCEPT !.compute_unit = v], current_state, active_workers)]_vars

\* C20: a unit whose accelerator is unavailable stays so for the run, and
\* submit_work never puts a batch on its queue, neither as the preferred unit
\* nor as a reroute target (stated for the GPU, disabled when CUDA is missing).
C20_DisabledNeverEnqueued ==
    [][~CUDA_AVAILABLE => (~CUDA_AVAILABLE' /\ ~EnqueuedOn("gpu"))]_vars

\* C21: a unit whose utilisation exceeded its threshold admits no batch until
\* a snapshot shows it below the threshold minus the hysteresis margin;
\* snapshots inside the band just below the threshold do not reopen it.
C21_SaturatedUntilBelowMargin ==
    [][\A batch \in NextBatches : \A u \in saturated :
          SubmitWork(batch) => ~EnqueuedOn(u)]_vars

\* the queued tuple get_next_work has to return: lowest dynamic priority value
\* first, among equal values the batch submitted first
FirstQueued(u) ==
    LET q == work_queues[u]
        i == CHOOSE i \in 1..Len(q) : \A j \in 1..Len(q) :
                 \/ q[i][1] < q[j][1]
                 \/ q[i][1] = q[j][1] /\ q[i][3].batch_id <= q[j][3].batch_id
    IN  q[i]

\* C22: a get_next_work call on a unit with queued batches returns the batch of
\* lowest dynamic priority value, and among equal values the one submitted
\* first, also when submissions carry equal timestamps.
C22_PriorityThenFifo ==
    [][\A w \in Workers, u \in ComputeUnits :
          (GetNextWork(w, u) \/ GetNextWorkRaise(w, u))
             => worker_batch'[w] = Some(FirstQueued(u)[3])]_vars

\* the utilisation above which a unit counts as busy when priorities are set;
\* the NPU has no softer threshold than the one of admission
WarningThresholdOf(u) == CASE u = "cpu" -> 60
                           [] u = "gpu" -> 50
                           [] u = "npu" -> npu_threshold

\* the queue tuple submit_work has just put on the queue of unit u
NewItem(u) == LET q == work_queues'[u]
              IN  q[CHOOSE i \in 1..Len(q) : q[i][3].batch_id = clock']

TrailingBelowHalf(u) ==
    LET history == performance_history[u]
        recent == LastN(history, RecentWindow)
    IN  /\ history # <<>>
        /\ 2 * Sum(recent) * Len(history) < Sum(history) * Len(recent)

\* C24: the throughput penalty, the larger one, is in the dynamic priority of an
\* enqueued batch exactly when the trailing throughput of its unit is below
\* half of that unit's historical average; a unit without a recorded
\* completion gets none.
C24_ThroughputPenalty ==
    [][\A batch \in NextBatches : \A u \in ComputeUnits :
          (SubmitWork(batch) /\ EnqueuedOn(u)) =>
             ((NewItem(u)[1] - batch.priority >= 15) <=> TrailingBelowHalf(u))]_vars

\* C25: whatever was recorded, a unit's throughput history holds at most 20
\* samples, and they are the most recently recorded ones of that unit, in the
\* order of recording; a record for one unit leaves the other histories alone.
C25_HistoryMostRecent ==
    \A u \in ComputeUnits :
        /\ Len(performance_history[u]) <= HistoryKeep
        /\ performance_history[u] = LastN(recorded[u], HistoryKeep)

\* more than 20 records went to the CPU, with GPU records in between
C25_Witness ==
    /\ Len(recorded["cpu"]) > HistoryKeep
    /\ Len(recorded["gpu"]) > 0
    /\ recorded["gpu"][1] < recorded["cpu"][Len(recorded["cpu"])]
    /\ recorded["gpu"][1] > recorded["cpu"][1]

\* the latest sampling tick could not query the GPU: CUDA is there, a tick has
\* published a snapshot, and its GPU fields are the ones left by the failed query
GpuQueryFailed ==
    /\ CUDA_AVAILABLE
    /\ current_state.system_memory_free > 0
    /\ current_state.gpu_memory_free = 0

\* C26: when the query of a unit's metrics failed in the latest tick, the
\* published snapshot keeps submit_work from putting any batch on that unit,
\* directly or by rerouting, and the sampler goes on publishing.
C26_FailedQueryClosesUnit ==
    [][GpuQueryFailed => \A batch \in NextBatches : SubmitWork(batch) => ~EnqueuedOn("gpu")]_vars

\* the snapshots of whole ticks: the one of __init__ and one per measurement
WholeSnapshots ==
    {ResourceState(0, 0, 0, 0, 0, 0)}
       \cup {MonitorSample(m[1], m[2], m[3], ok) : m \in Measurements, ok \in BOOLEAN}

\* C27: the field values a reader takes from the ResourceState it obtained all
\* belong to one sampling tick, however the monitor runs in between.
C27_SnapshotFromOneTick ==
    \E snapshot \in WholeSnapshots :
        \A i \in 1..Len(reader_seen) : reader_seen[i] = snapshot[StatsFields[i]]

\* the reader has read every field from an object the monitor has since
\* replaced by the snapshot of a different measurement
C27_Witness ==
    /\ reader_ref = "old"
    /\ Len(reader_seen) = Len(StatsFields)
    /\ old_state.cpu_usage # current_state.cpu_usage
    /\ old_state.system_memory_free > 0

\* C28: analyze_hybrid collects and sorts only when every CPU batch future has
\* completed and the GPU and NPU threads have ended, no result is still on its
\* way to result_queue, and the collection takes everything that was put on it.
C28_BarrierBeforeCollect ==
    main_pc \in {"collect", "returned"} =>
        /\ cpu_consumed = 1..Len(cpu_batches)
        /\ \A u \in Units : thread_pc[u] \in {"idle", "done"} /\ thread_out[u] = <<>>
        /\ main_out = <<>>
        /\ main_pc = "returned" =>
              /\ result_queue = <<>>
              /\ SeqToSet(results) = SeqToSet(arrival)
              /\ \A r \in produced :
                    (r.magnitude = None \/ r.magnitude[1] >= magnitude_threshold)
                       => r \in SeqToSet(arrival)

\* a run returned results that came from a worker thread and from a CPU batch
C28_Witness ==
    /\ main_pc = "returned"
    /\ \E u \in Units : thread_pc[u] = "done" /\ batches[u] # <<>>
    /\ cpu_batches # <<>>
    /\ Len(results) >= 2

C30_EqualDigestsEqualRuns ==
    (main_pc = "validated" /\ report.status = "report" /\ report.passed) =>
        \A k \in 2..Len(run_results) : run_results[k] = run_results[1]

TargetBatchCount ==
    CASE simple_pc = "as_completed" -> num_processes
      [] simple_pc = "optimized_batches" -> num_processes * 4
      [] simple_pc = "max_cpu_batches" -> (num_processes + 2) * 8

ConfiguredMinimum ==
    CASE simple_pc = "as_completed" -> 1
      [] simple_pc = "optimized_batches" -> OptimizedMinBatch
      [] simple_pc = "max_cpu_batches" -> MaxCpuMinBatch

\* C32: for a non-empty id list of size n and target batch count k, every
\* partitioner cuts the list, in input order, into batches of size
\* max(configured_minimum, ceil(n / k)): all batches but the last hold exactly
\* that many ids, the last holds the remainder.
C32_CeilBatchSize ==
    (simple_pc \in {"as_completed", "optimized_batches", "max_cpu_batches"}
       /\ all_rsids # <<>>) =>
        LET n == Len(all_rsids)
            size == Max(ConfiguredMinimum, (n + TargetBatchCount - 1) \div TargetBatchCount)
        IN  /\ Flatten(chunks) = all_rsids
            /\ \A i \in 1..(Len(chunks) - 1) : Len(chunks[i]) = size
            /\ Len(chunks) >= 1
            /\ Len(chunks[Len(chunks)]) \in 1..size

\* the positions of record_performance between its read and its write of the
\* history list
InsideRecord == {"rp_test", "rp_slice", "rp_store"}

\* C33: every read-modify-write of a unit's queue, active-worker count or
\* throughput history happens while the calling thread holds the exclusive
\* region of that unit: no report is lost from a history, and a thread never
\* waits for a lock that is held for work on another unit.
C33_UpdatesUnderUnitLock ==
    /\ \A t \in Threads : call_pc[t] \in InsideRecord => scheduling_lock = t
    /\ \A u \in ComputeUnits :
          (\A t \in Threads : call_op[t].compute_unit # u) =>
              performance_history[u] = LastN(recorded[u], HistoryKeep)
    /\ \A t \in Threads :
          (call_pc[t] = "acquire" /\ scheduling_lock # 0) =>
              call_op[scheduling_lock].compute_unit = call_op[t].compute_unit

\* the items of all queues
QueuedItems == UNION {SeqToSet(work_queues[u]) : u \in ComputeUnits}

\* C34: when submit_work returns False, no queue gained or lost an item, the
\* active-worker counts and the throughput histories are as before, and the
\* batch object still carries the compute_unit and priority the caller passed.
C34_RejectedLeavesStateUnchanged ==
    [][\A t \in Submitters :
          (call_pc[t] = "alternative" /\ call_pc'[t] = "idle") =>
              /\ submit_result' = FALSE
              /\ work_queues' = work_queues
              /\ \A item \in QueuedItems : item[3].batch_id # call_op[t].batch.batch_id
              /\ active_workers' = active_workers
              /\ performance_history' = performance_history
              /\ call_op'[t].batch.compute_unit = call_op[t].compute_unit
              /\ call_op'[t].batch.compute_unit \in ComputeUnits
              /\ call_op'[t].batch = call_op[t].batch]_vars

\* submit_work has returned False for an NPU batch while an earlier batch is
\* queued
C34_Witness ==
    /\ call_pc[1] = "idle"
    /\ call_op[1].op = "submit_work"
    /\ call_op[1].batch.compute_unit = "npu"
    /\ QueuedItems # {}
    /\ \A item \in QueuedItems : item[3].batch_id # call_op[1].batch.batch_id

\* C36: within one submit_work call the admission test, the choice of the
\* alternative unit and the dynamic priority all read the same resource
\* snapshot, also when the monitor publishes a new one during the call: at
\* the step that chooses the alternative and at the step that computes the
\* priority, the snapshot read is the one every earlier step of the call read
C36_OneSnapshotPerCall ==
    [][\A t \in Submitters :
          (call_pc[t] \in {"alternative", "priority"} /\ call_pc'[t] # call_pc[t]) =>
              \A i \in 1..Len(call_seen[t]) : call_seen[t][i] = current_state]_vars

\* ------------------------------------------------------- preload_snpedia
\* what SNPediaReader returns for the rsids of get_all_rsids()
Database == [rsid \in 1..NumMarkers |-> TableInfo(rsid)]

\* everything preload_snpedia leaves alone
preload_frame == <<genome_data, magnitude_threshold, gpu_accelerator, npu_accelerator,
                   limit, rsid_queue, result_queue, thread_pc, thread_batch, thread_out,
                   cpu_batch, cpu_batches, cpu_consumed, main_out, results, batches,
                   produced, arrival, errors, val_vars, sched_vars, simple_vars, use_cpu,
                   balancer_vars>>

\* the analyzer after __init__ and load_genome: snpedia_cache is None
PreloadInit ==
    /\ genome_data = [rsid \in 1..NumMarkers |-> GenomeOf(rsid)]
    /\ snpedia_cache = <<>>
    /\ cache_is_none = TRUE
    /\ use_cpu = TRUE
    /\ magnitude_threshold = 0
    /\ gpu_accelerator \in GpuStates
    /\ npu_accelerator \in NpuStates
    /\ limit = None
    /\ rsid_queue = Limited(all_rsids, limit)
    /\ result_queue = <<>>
    /\ thread_pc = [u \in Units |-> "idle"]
    /\ thread_batch = [u \in Units |-> <<>>]
    /\ thread_out = [u \in Units |-> <<>>]
    /\ main_pc = "call"
    /\ cpu_batch = <<>>
    /\ cpu_batches = <<>>
    /\ cpu_consumed = {}
    /\ main_out = <<>>
    /\ results = <<>>
    /\ batches = [u \in Units |-> <<>>]
    /\ produced = {}
    /\ arrival = <<>>
    /\ errors = <<>>
    /\ ValStart
    /\ SchedStart
    /\ BalancerStart
    /\ SimpleStart
    /\ CUDA_AVAILABLE = FALSE
    /\ torch_device = "none"

\* analyze_hybrid is called (again after a call that raised):
\* if self.snpedia_cache is None: self.preload_snpedia(), which starts with
\* self.snpedia_cache = {}
AnalyzeHybridCall ==
    /\ main_pc \in {"call", "raised"}
    /\ IF cache_is_none
       THEN /\ main_pc' = "preload"
            /\ snpedia_cache' = <<>>
            /\ cache_is_none' = FALSE
       ELSE /\ main_pc' = "start_gpu"
            /\ UNCHANGED <<snpedia_cache, cache_is_none>>
    /\ UNCHANGED preload_frame

\* preload_snpedia: self.snpedia_cache[rsid] = reader.get_snp_info(rsid)
PreloadNext ==
    /\ main_pc = "preload"
    /\ Len(snpedia_cache) < NumMarkers
    /\ snpedia_cache' = [rsid \in 1..(Len(snpedia_cache) + 1) |-> Database[rsid]]
    /\ UNCHANGED <<main_pc, cache_is_none, preload_frame>>

\* preload_snpedia: the loop is over, analyze_hybrid goes on
PreloadReturn ==
    /\ main_pc = "preload"
    /\ Len(snpedia_cache) = NumMarkers
    /\ main_pc' = "start_gpu"
    /\ UNCHANGED <<snpedia_cache, cache_is_none, preload_frame>>

\* preload_snpedia: the reader raises (get_all_rsids or get_snp_info); there
\* is no handler, the exception leaves analyze_hybrid
PreloadRaise ==
    /\ main_pc = "preload"
    /\ Len(snpedia_cache) < NumMarkers
    /\ main_pc' = "raised"
    /\ UNCHANGED <<snpedia_cache, cache_is_none, preload_frame>>

NextPreload ==
    \/ AnalyzeHybridCall
    \/ PreloadNext
    \/ PreloadReturn
    \/ PreloadRaise
    \/ AnalyzeHybrid

\* calls of analyze_hybrid on an analyzer whose cache is not loaded yet
SpecPreload == PreloadInit /\ [][NextPreload]_vars

\* C35: when preload_snpedia fails part-way the cache is left unloaded
\* (None), so that a later call loads it again, and a run of analyze_hybrid
\* joins markers only against a completely loaded cache
C35_FailedPreloadLeavesCacheUnloaded ==
    /\ main_pc = "raised" => cache_is_none
    /\ main_pc \notin {"call", "preload", "raised"} => snpedia_cache = Database

\* ------------------------------------------------------- ComputeConfig
\* the analyzer of Init under any ComputeConfig, use_cpu included
\* (benchmark_suite.measure_baseline replaces analyzer.config)
ConfigInit ==
    /\ genome_data = [rsid \in 1..NumMarkers |-> GenomeOf(rsid)]
    /\ \E k \in 0..NumMarkers : snpedia_cache = [rsid \in 1..k |-> TableInfo(rsid)]
    /\ magnitude_threshold \in Thresholds
    /\ gpu_accelerator \in GpuStates
    /\ npu_accelerator \in NpuStates
    /\ limit = None
    /\ RunStart
    /\ ValStart
    /\ SchedStart
    /\ cache_is_none = FALSE
    /\ use_cpu \in BOOLEAN
    /\ BalancerStart
    /\ SimpleStart
    /\ CUDA_AVAILABLE = FALSE
    /\ torch_device = "none"

\* one call of analyze_hybrid under any configuration
SpecConfig == ConfigInit /\ [][AnalyzeHybrid]_vars

\* C37: with use_cpu false no marker is assigned to the CPU worker pool; in
\* a GPU-only (NPU-only) configuration every marker is processed by the
\* GPU (NPU) unit
C37_NoCpuWorkWithoutUseCpu ==
    ~use_cpu =>
        /\ cpu_batch = <<>>
        /\ cpu_batches = <<>>
        /\ \A u \in Units :
              (/\ main_pc = "returned"
               /\ thread_pc[u] = "done"
               /\ \A v \in Units \ {u} : thread_pc[v] = "idle") =>
                    SeqToSet(Flatten(batches[u])) = SeqToSet(all_rsids)

\* ------------------------------------------------------- termination
\* the steps of the thread that runs analyze_hybrid, the pool's futures included
MainThread ==
    \/ StartGpu
    \/ StartNpu
    \/ CpuTake
    \/ CpuFillEnd
    \/ CpuLoopExit
    \/ \E i \in 1..NumMarkers : FutureResult(i)
    \/ \E i \in 1..NumMarkers : FutureRaise(i)
    \/ CpuPut
    \/ Join
    \/ Collect

\* the steps of gpu_worker / npu_worker
UnitThread(u) ==
    \/ ThreadExit(u)
    \/ ThreadTake(u)
    \/ ThreadFillEnd(u)
    \/ ThreadProcess(u)
    \/ ThreadRaise(u)
    \/ ThreadPut(u)

\* the analyzer of Init with the whole database loaded and no threshold
FairInit == Init /\ magnitude_threshold = 0 /\ snpedia_cache = Database

\* one call of analyze_hybrid whose threads are scheduled fairly: a thread
\* that can take a step eventually takes one
SpecFair ==
    /\ FairInit
    /\ [][Next]_vars
    /\ WF_vars(MainThread)
    /\ \A u \in Units : WF_vars(UnitThread(u))

learning_rate == 1
MinWeight == 1
MaxWeight == 8
Tenths == 10

RECURSIVE GCD(_, _)
GCD(a, b) == IF b = 0 THEN a ELSE GCD(b, a % b)

\* a weight state with its common factor removed (the same fractions)
Reduced(w) ==
    LET g == GCD(GCD(GCD(w.num["cpu"], w.num["gpu"]), w.num["npu"]), w.den)
    IN  [num |-> [u \in ComputeUnits |-> w.num[u] \div g], den |-> w.den \div g]

\* performance_results of one measurement: one unit with a positive
\* throughput, or none (.get(unit, 0) for the others)
PerformanceResults ==
    {[u \in ComputeUnits |-> IF u = v THEN 1 ELSE 0] : v \in ComputeUnits}
        \cup {[u \in ComputeUnits |-> 0]}

\* update_distribution: new_weight = current + learning_rate * (ideal - current),
\* clamped to [0.1, 0.8], then every weight divided by the sum of the weights
UpdatedWeights(w, performance_results) ==
    LET total_performance == Sum([i \in 1..3 |-> performance_results[ComputeUnit[i]]])
        den == Tenths * w.den * total_performance
        new_weight(u) == (Tenths - learning_rate) * w.num[u] * total_performance
                            + learning_rate * performance_results[u] * w.den
        lower == MinWeight * w.den * total_performance
        upper == MaxWeight * w.den * total_performance
        clamped == [u \in ComputeUnits |-> Max(lower, Min(upper, new_weight(u)))]
        total_weight == clamped["cpu"] + clamped["gpu"] + clamped["npu"]
    IN  IF total_performance > 0
        THEN Reduced([num |-> clamped, den |-> total_weight])
        ELSE w

\* int(total_batches * weight): the float product of a weight that is not a
\* binary fraction may fall just below an exact integer, and int() truncates
BatchCount(total_batches, w, u) ==
    LET product == total_batches * w.num[u]
        q == product \div w.den
    IN  IF product % w.den = 0 /\ q > 0 THEN {q - 1, q} ELSE {q}

\* a distribution in which the NPU count is computed like the others
RecommendedTruncated(total_batches, w) ==
    {[u \in ComputeUnits |-> IF u = "cpu" THEN c ELSE IF u = "gpu" THEN g ELSE n] :
        c \in BatchCount(total_batches, w, "cpu"),
        g \in BatchCount(total_batches, w, "gpu"),
        n \in BatchCount(total_batches, w, "npu")}

\* get_recommended_distribution: CPU and GPU get int(total * weight), the
\* NPU gets the remaining batches
RecommendedDistribution(total_batches, w) ==
    {[u \in ComputeUnits |-> IF u = "cpu" THEN c ELSE IF u = "gpu" THEN g
                                                  ELSE total_batches - c - g] :
        c \in BatchCount(total_batches, w, "cpu"),
        g \in BatchCount(total_batches, w, "gpu")}

balancer_frame == <<hybrid_vars, val_vars, sched_vars, simple_vars, setup_vars>>

UpdateDistribution(performance_results) ==
    /\ weight_updates < MaxUpdates
    /\ weight_updates' = weight_updates + 1
    /\ distribution_weights' = UpdatedWeights(distribution_weights, performance_results)
    /\ UNCHANGED <<distribution, balancer_frame>>

GetRecommendedDistribution(total_batches) ==
    /\ \E d \in RecommendedDistribution(total_batches, distribution_weights) :
          distribution' = Some([total_batches |-> total_batches, counts |-> d])
    /\ UNCHANGED <<distribution_weights, weight_updates, balancer_frame>>

NextBalancer ==
    \/ \E performance_results \in PerformanceResults : UpdateDistribution(performance_results)
    \/ \E total_batches \in 0..MaxBatches : GetRecommendedDistribution(total_batches)

\* a load balancer that is updated and asked, in any order
SpecBalancer == SchedInit /\ [][NextBalancer]_vars

\* C39: for every total_batches >= 0 and every weight state reachable
\* through update_distribution, get_recommended_distribution returns a count
\* >= 0 for each of CPU, GPU and NPU, and the three counts sum to total_batches
C39_DistributionSumsToTotal ==
    distribution # None =>
        LET d == distribution[1]
        IN  /\ \A u \in ComputeUnits : d.counts[u] >= 0
            /\ d.counts["cpu"] + d.counts["gpu"] + d.counts["npu"] = d.total_batches

\* a distribution asked after the seventh update, which clamped the NPU
\* weight to 0.1 and normalised: 0.2 * 0.9^7 = 0.0957 became 0.1 / 1.0043
C39_Witness ==
    /\ distribution # None
    /\ weight_updates = 7
    /\ distribution_weights.num["npu"] * Tenths < distribution_weights.den
    /\ distribution_weights.num["npu"] > 99 * (distribution_weights.den \div 1000)
    /\ distribution[1].total_batches = 3
    /\ distribution[1].counts \in RecommendedDistribution(3, distribution_weights)
    /\ distribution[1].counts["npu"] = 1

====
